---- MODULE Spec2Model ----
(***************************************************************************)
(* Model of the clewcrew expert agents (src/clewcrew_agents): the          *)
(* confidence and risk scorers, the Security pattern scan and the          *)
(* artifact probes of the Architecture, Build, CodeQuality, MCP and Model  *)
(* experts.                                                                *)
(*                                                                         *)
(* Python floats are IEEE-754 binary64 values.  They are modelled exactly: *)
(* a float is a sign, a 53-bit mantissa (a sequence of 14-bit limbs) and a *)
(* binary exponent; every arithmetic operation computes the                *)
(* exact result and rounds it to nearest, ties to even.  All values the    *)
(* program computes stay far inside the normal range, so subnormals,       *)
(* infinities and NaN are not represented.                                 *)
(***************************************************************************)
EXTENDS Integers, Sequences, FiniteSets, TLC

\* ------------------------------------------------------------------ bounds
\* longest findings list handed to a scorer (lists of severe findings)
MaxFindings == 5
\* longest findings list over the full sample alphabet; pairs of such lists
\* are compared with each other
MaxShort == 2
\* number of text lines in the Python files of a sample tree, all together
MaxLines == 2
\* largest count of high and of critical findings whose confidence is
\* tabulated
MaxTabled == 9
\* number of lines without a match at the head of a text handed to the
\* pattern detector: the sample lines begin at line 1 up to line MaxPad + 1
MaxPad == 9
\* number of sample lines that follow them
MaxBody == 2
\* longest findings list handed to suggest_fixes
MaxIssues == 2

\* the invocations that wait while another one runs
MaxSuspended == 1

\* ------------------------------------------------------- binary64 numbers
\* The significand of a binary64 number has 53 bits.  A natural number is a
\* little-endian sequence of 14-bit limbs (base 16384) without leading zero
\* limbs, so that every intermediate value fits a machine integer.
Max2(i1, i2) == IF i1 >= i2 THEN i1 ELSE i2
Min2(j1, j2) == IF j1 <= j2 THEN j1 ELSE j2

Limb(ls, li) == IF li >= 1 /\ li <= Len(ls) THEN ls[li] ELSE 0

\* drop the zero limbs above the highest non-zero limb
Trim(ts) ==
    IF \A i \in 1..Len(ts) : ts[i] = 0 THEN <<>>
    ELSE SubSeq(ts, 1, CHOOSE i \in 1..Len(ts) :
                          ts[i] # 0 /\ \A k \in (i + 1)..Len(ts) : ts[k] = 0)

\* aa + ab; there is a carry into limb ci when a lower limb generates one
\* and every limb between propagates it
BAdd(aa, ab) ==
    LET CarryIn(ci) ==
            \E j \in 1..(ci - 1) :
                /\ Limb(aa, j) + Limb(ab, j) >= 16384
                /\ \A k \in (j + 1)..(ci - 1) :
                        Limb(aa, k) + Limb(ab, k) >= 16383
    IN  Trim([i \in 1..(Max2(Len(aa), Len(ab)) + 1) |->
                (Limb(aa, i) + Limb(ab, i)
                 + (IF CarryIn(i) THEN 1 ELSE 0)) % 16384])

\* sa - sb for sa >= sb, with the borrow into limb wi
BSub(sa, sb) ==
    LET BorrowIn(wi) ==
            \E j \in 1..(wi - 1) :
                /\ Limb(sa, j) < Limb(sb, j)
                /\ \A k \in (j + 1)..(wi - 1) : Limb(sa, k) <= Limb(sb, k)
    IN  Trim([i \in 1..Len(sa) |->
                (16384 + Limb(sa, i) - Limb(sb, i)
                 - (IF BorrowIn(i) THEN 1 ELSE 0)) % 16384])

\* -1, 0, 1 as pa < pb, pa = pb, pa > pb
BCmp(pa, pb) ==
    IF Len(pa) > Len(pb) THEN 1
    ELSE IF Len(pa) < Len(pb) THEN -1
    ELSE IF pa = pb THEN 0
    ELSE IF \E i \in 1..Len(pa) :
                pa[i] > pb[i] /\ \A k \in (i + 1)..Len(pa) : pa[k] = pb[k]
    THEN 1 ELSE -1

\* qa * qs for one limb qs: the low halves of the limb products plus their
\* high halves one limb up
MulLimb(qa, qs) ==
    BAdd([i \in 1..Len(qa) |-> (qa[i] * qs) % 16384],
         [i \in 1..(Len(qa) + 1) |->
            IF i = 1 THEN 0 ELSE (qa[i - 1] * qs) \div 16384])

\* zn zero limbs
Zeros(zn) == [i \in 1..zn |-> 0]

\* ua * ub: the products of ua with the limbs of ub, each shifted to its
\* place, summed up
BMul(ua, ub) ==
    LET RECURSIVE MulRec(_, _)
        MulRec(mi, acc) ==
            IF mi > Len(ub) THEN acc
            ELSE MulRec(mi + 1,
                        BAdd(acc, Trim(Zeros(mi - 1) \o MulLimb(ua, ub[mi]))))
    IN  IF ua = <<>> \/ ub = <<>> THEN <<>> ELSE MulRec(1, <<>>)

\* number of bits of a natural number
BitLen(na) ==
    IF na = <<>> THEN 0
    ELSE 14 * (Len(na) - 1)
         + (CHOOSE n \in 1..14 :
                2 ^ (n - 1) <= na[Len(na)] /\ na[Len(na)] < 2 ^ n)

\* ha * 2^hk
Shl(ha, hk) ==
    IF ha = <<>> THEN ha
    ELSE Trim(Zeros(hk \div 14) \o MulLimb(ha, 2 ^ (hk % 14)))

\* floor(ga / 2^gk)
Shr(ga, gk) ==
    LET q == gk \div 14
        r == gk % 14
    IN  Trim([i \in 1..(Len(ga) - q) |->
                (Limb(ga, i + q) \div (2 ^ r))
                + (Limb(ga, i + q + 1) % (2 ^ r)) * (2 ^ (14 - r))])

\* an exact dyadic number: (-1)^sign * mant * 2^exp, mant of any length
Exact(sgn, mnt, ex) == [sign |-> sgn, mant |-> mnt, exp |-> ex]

FZero == Exact(0, <<>>, 0)

\* round an exact dyadic number to binary64, nearest, ties to even; the
\* result has a mantissa of exactly 53 bits, or is FZero
FRound(rx) ==
    LET m == Trim(rx.mant)
        L == BitLen(m)
        \* bit bj (from 0) of a natural number
        Bit(ba, bj) == (Limb(ba, (bj \div 14) + 1) \div (2 ^ (bj % 14))) % 2
    IN  IF L = 0 THEN FZero
        ELSE IF L <= 53
        THEN Exact(rx.sign, Shl(m, 53 - L), rx.exp - (53 - L))
        ELSE LET k      == L - 53
                 kept   == Shr(m, k)
                 half   == Bit(m, k - 1) = 1
                 sticky == \E i \in 0..(k - 2) : Bit(m, i) = 1
                 up     == half /\ (sticky \/ Bit(kept, 0) = 1)
                 r      == IF up THEN BAdd(kept, <<1>>) ELSE kept
             IN  IF BitLen(r) > 53
                 THEN Exact(rx.sign, Shr(r, 1), rx.exp + k + 1)
                 ELSE Exact(rx.sign, r, rx.exp + k)

\* exact sum of two dyadic numbers
ExactAdd(ex1, ex2) ==
    IF ex1.mant = <<>> THEN ex2
    ELSE IF ex2.mant = <<>> THEN ex1
    ELSE LET e  == Min2(ex1.exp, ex2.exp)
             m1 == Shl(ex1.mant, ex1.exp - e)
             m2 == Shl(ex2.mant, ex2.exp - e)
             c  == BCmp(m1, m2)
         IN  IF ex1.sign = ex2.sign THEN Exact(ex1.sign, BAdd(m1, m2), e)
             ELSE IF c = 0 THEN FZero
             ELSE IF c > 0 THEN Exact(ex1.sign, BSub(m1, m2), e)
             ELSE Exact(ex2.sign, BSub(m2, m1), e)

FNeg(nx) ==
    IF nx.mant = <<>> THEN nx ELSE Exact(1 - nx.sign, nx.mant, nx.exp)

\* float + float, float - float, float * float
FAdd(fa1, fa2) == FRound(ExactAdd(fa1, fa2))
FSub(fs1, fs2) == FRound(ExactAdd(fs1, FNeg(fs2)))
FMul(fm1, fm2) ==
    IF fm1.mant = <<>> \/ fm2.mant = <<>> THEN FZero
    ELSE FRound(Exact((fm1.sign + fm2.sign) % 2, BMul(fm1.mant, fm2.mant),
                      fm1.exp + fm2.exp))

\* fl1 < fl2, fe1 <= fe2
FLt(fl1, fl2) ==
    LET d == ExactAdd(fl1, FNeg(fl2)) IN d.mant # <<>> /\ d.sign = 1
FLe(fe1, fe2) == ~FLt(fe2, fe1)

\* int -> float (exact for the integers below 16384 used here)
IntToFloat(n) ==
    IF n >= 0 THEN FRound(Exact(0, Trim(<<n>>), 0))
    ELSE FRound(Exact(1, Trim(<<-n>>), 0))

\* the binary64 value of the decimal literal n/d (0 <= n < 16384 * d,
\* 0 < d < 2^16): long division to 70 fractional bits in five 14-bit steps,
\* a non-zero remainder kept as a sticky limb, then correct rounding
Dec(n, d) ==
    LET r1 == n % d
        q1 == (r1 * 16384) \div d
        r2 == (r1 * 16384) % d
        q2 == (r2 * 16384) \div d
        r3 == (r2 * 16384) % d
        q3 == (r3 * 16384) \div d
        r4 == (r3 * 16384) % d
        q4 == (r4 * 16384) \div d
        r5 == (r4 * 16384) % d
        q5 == (r5 * 16384) \div d
        r6 == (r5 * 16384) % d
    IN  FRound(Exact(0,
                     <<IF r6 # 0 THEN 1 ELSE 0, q5, q4, q3, q2, q1, n \div d>>,
                     -84))

\* the float literals of the source
Lit_0_0  == Dec(0, 10)
Lit_0_1  == Dec(1, 10)
Lit_0_2  == Dec(2, 10)
Lit_0_3  == Dec(3, 10)
Lit_0_5  == Dec(5, 10)
Lit_0_8  == Dec(8, 10)
Lit_0_9  == Dec(9, 10)
Lit_1_0  == Dec(10, 10)
Lit_2_0  == Dec(20, 10)
Lit_5_0  == Dec(50, 10)
Lit_10_0 == Dec(100, 10)

\* Python's builtin min(a, b) and max(a, b) on floats: the first argument
\* is returned unless the second is strictly smaller (larger)
PyMin(a, b) == IF FLt(b, a) THEN b ELSE a
PyMax(a, b) == IF FLt(a, b) THEN b ELSE a

\* ------------------------------------------------------------- findings
\* dict.get(key, default); dict.get(key) has the default None
None == "None"
DictGet(fields, key, default) ==
    IF key \in DOMAIN fields THEN fields[key] ELSE default

RECURSIVE CountPriority(_, _)
CountPriority(fs, p) ==
    IF fs = <<>> THEN 0
    ELSE (IF DictGet(Head(fs), "priority", None) = p THEN 1 ELSE 0)
         + CountPriority(Tail(fs), p)

\* base_confidence - high_priority * 0.1 - critical_priority * 0.2
PenalisedAt(high_priority, critical_priority) ==
    FSub(FSub(Lit_0_8, FMul(IntToFloat(high_priority), Lit_0_1)),
         FMul(IntToFloat(critical_priority), Lit_0_2))

Penalised(fs) ==
    PenalisedAt(CountPriority(fs, "high"), CountPriority(fs, "critical"))

\* max(0.0, min(1.0, confidence))
Clamp01(c) == PyMax(Lit_0_0, PyMin(Lit_1_0, c))

\* The confidence of a non-empty list depends on its two counts only; the
\* values for counts up to MaxTabled are computed once and looked up.
ConfidenceTable ==
    LET RECURSIVE ConfidenceRow(_, _)
        ConfidenceRow(high_count, critical_count) ==
            IF critical_count > MaxTabled THEN <<>>
            ELSE <<Clamp01(PenalisedAt(high_count, critical_count))>>
                 \o ConfidenceRow(high_count, critical_count + 1)
        RECURSIVE ConfidenceRows(_)
        ConfidenceRows(high_count) ==
            IF high_count > MaxTabled THEN <<>>
            ELSE <<ConfidenceRow(high_count, 0)>>
                 \o ConfidenceRows(high_count + 1)
    IN  ConfidenceRows(0)

\* a variant that treats the list [] as any other list
calculate_confidence_no_empty_case(fs) == Clamp01(Penalised(fs))

\* a variant that forgets the clamp
calculate_confidence_unclamped(fs) ==
    IF fs = <<>> THEN Lit_0_9 ELSE Penalised(fs)

\* a variant that also penalises medium findings
calculate_confidence_medium(fs) ==
    IF fs = <<>> THEN Lit_0_9
    ELSE Clamp01(FSub(Penalised(fs),
                      FMul(IntToFloat(CountPriority(fs, "medium")),
                           Lit_0_1)))

\* a variant that rewards critical findings
calculate_confidence_reward(fs) ==
    IF fs = <<>> THEN Lit_0_9
    ELSE Clamp01(FAdd(FSub(Lit_0_8,
                           FMul(IntToFloat(CountPriority(fs, "high")),
                                Lit_0_1)),
                      FMul(IntToFloat(CountPriority(fs, "critical")),
                           Lit_0_2)))

\* BaseExpert.calculate_confidence
calculate_confidence(fs) ==
    LET high_count == CountPriority(fs, "high")
        critical_count == CountPriority(fs, "critical")
    IN  IF fs = <<>> THEN Lit_0_9
        ELSE IF high_count <= MaxTabled /\ critical_count <= MaxTabled
        THEN ConfidenceTable[high_count + 1][critical_count + 1]
        ELSE Clamp01(PenalisedAt(high_count, critical_count))

\* for issue in issues: total_score += the weight of its priority
RECURSIVE RiskSum(_, _)
RiskSum(issues, total_score) ==
    LET priority == DictGet(Head(issues), "priority", None)
        weight == IF priority = "critical" THEN Lit_10_0
                  ELSE IF priority = "high" THEN Lit_5_0
                  ELSE IF priority = "medium" THEN Lit_2_0
                  ELSE Lit_1_0
    IN  IF issues = <<>> THEN total_score
        ELSE RiskSum(Tail(issues), FAdd(total_score, weight))

\* a variant that forgets the cap
calculate_risk_score_uncapped(issues) ==
    IF issues = <<>> THEN Lit_0_0 ELSE RiskSum(issues, Lit_0_0)

\* SecurityExpert.calculate_risk_score
calculate_risk_score(issues) ==
    IF issues = <<>> THEN Lit_0_0
    ELSE PyMin(Lit_10_0, RiskSum(issues, Lit_0_0))

\* ------------------------------------------------------------------ state
VARIABLES
    findings,          \* the list handed to a scorer
    other,             \* a second list, scored next to the first
    confidence,        \* calculate_confidence(findings), once called
    other_confidence,  \* calculate_confidence(other), once called
    risk_score,        \* calculate_risk_score(findings), once called
    called,            \* the scorers that have returned
    tree,              \* the file tree at project_path
    expert,            \* the expert whose detect_hallucinations is running
    pc,                \* where that invocation stands
    hallucinations,    \* its local list of findings
    scan_files,        \* the files that the Security scan iterates over
    scan_idx,          \* position of the scan in scan_files
    result,            \* the HallucinationResult it returned
    returned,          \* how many Results the invocation has returned
    raised,            \* whether an exception left detect_hallucinations
    suspended,         \* the invocations that wait for a worker
    file_text,         \* the text of the file handed to the pattern detector
    detected,          \* what the detector appended for file_text
    fix_issues,        \* the list handed to suggest_fixes
    fix_expert,        \* the expert whose suggest_fixes is called
    fixes,             \* what suggest_fixes did: its list, or an exception
    validation,        \* what validate_findings returned, None before
    recovery           \* what execute_recovery returned, None before

score_vars == <<findings, other, confidence, other_confidence, risk_score,
                called>>

detect_vars == <<tree, expert, pc, hallucinations, scan_files, scan_idx, result,
                 returned, raised, suspended>>

apply_vars == <<file_text, detected, fix_issues, fix_expert, fixes, validation,
                recovery>>

\* what a step of detect_hallucinations cannot touch
outer_vars == <<score_vars, apply_vars, suspended>>

vars == <<score_vars, detect_vars, apply_vars>>

\* all sequences over S of length at most n
Lists(S, n) == UNION {[1..k -> S] : k \in 0..n}

\* --------------------------------------------------------- the file tree
\* The paths a sample tree may hold, relative to project_path, in the order
\* a recursive walk yields them: the entries of a directory before those of
\* its subdirectories.  parent is "" for an entry of the project root; ext
\* is Path.suffix.
Paths == <<
    [path |-> "main.py", parent |-> "", name |-> "main.py", ext |-> ".py"],
    [path |-> "tool.py", parent |-> "", name |-> "tool.py", ext |-> ".py"],
    [path |-> "b1.py", parent |-> "", name |-> "b1.py", ext |-> ".py"],
    [path |-> "b2.py", parent |-> "", name |-> "b2.py", ext |-> ".py"],
    [path |-> "b3.py", parent |-> "", name |-> "b3.py", ext |-> ".py"],
    [path |-> "b4.py", parent |-> "", name |-> "b4.py", ext |-> ".py"],
    [path |-> "b5.py", parent |-> "", name |-> "b5.py", ext |-> ".py"],
    [path |-> "b6.py", parent |-> "", name |-> "b6.py", ext |-> ".py"],
    [path |-> "b7.py", parent |-> "", name |-> "b7.py", ext |-> ".py"],
    [path |-> "b8.py", parent |-> "", name |-> "b8.py", ext |-> ".py"],
    [path |-> "b9.py", parent |-> "", name |-> "b9.py", ext |-> ".py"],
    [path |-> "README.md", parent |-> "", name |-> "README.md", ext |-> ".md"],
    [path |-> "requirements.txt", parent |-> "", name |-> "requirements.txt", ext |-> ".txt"],
    [path |-> "pyproject.toml", parent |-> "", name |-> "pyproject.toml", ext |-> ".toml"],
    [path |-> "build.log", parent |-> "", name |-> "build.log", ext |-> ".log"],
    [path |-> "mcp_config.json", parent |-> "", name |-> "mcp_config.json", ext |-> ".json"],
    [path |-> "mcp.log", parent |-> "", name |-> "mcp.log", ext |-> ".log"],
    [path |-> "model_config.json", parent |-> "", name |-> "model_config.json", ext |-> ".json"],
    [path |-> "model.log", parent |-> "", name |-> "model.log", ext |-> ".log"],
    [path |-> ".flake8", parent |-> "", name |-> ".flake8", ext |-> ""],
    [path |-> "flake8_report.json", parent |-> "", name |-> "flake8_report.json", ext |-> ".json"],
    [path |-> "flake8_report.txt", parent |-> "", name |-> "flake8_report.txt", ext |-> ".txt"],
    [path |-> "src", parent |-> "", name |-> "src", ext |-> ""],
    [path |-> "docs", parent |-> "", name |-> "docs", ext |-> ""],
    [path |-> "build", parent |-> "", name |-> "build", ext |-> ""],
    [path |-> "logs", parent |-> "", name |-> "logs", ext |-> ""],
    [path |-> "models", parent |-> "", name |-> "models", ext |-> ""],
    [path |-> ".github", parent |-> "", name |-> ".github", ext |-> ""],
    [path |-> "src/__init__.py", parent |-> "src", name |-> "__init__.py", ext |-> ".py"],
    [path |-> "src/app.py", parent |-> "src", name |-> "app.py", ext |-> ".py"],
    [path |-> "src/pkg", parent |-> "src", name |-> "pkg", ext |-> ""],
    [path |-> "src/pkg/mod.py", parent |-> "src/pkg", name |-> "mod.py", ext |-> ".py"],
    [path |-> "docs/guide.md", parent |-> "docs", name |-> "guide.md", ext |-> ".md"],
    [path |-> "docs/architecture.md", parent |-> "docs", name |-> "architecture.md", ext |-> ".md"],
    [path |-> ".github/workflows", parent |-> ".github", name |-> "workflows", ext |-> ""],
    [path |-> ".github/workflows/ci.yml", parent |-> ".github/workflows", name |-> "ci.yml", ext |-> ".yml"] >>

PathNames == {Paths[i].path : i \in DOMAIN Paths}

PathInfo(p) == CHOOSE r \in {Paths[i] : i \in DOMAIN Paths} : r.path = p

\* entries of a tree; a text is a sequence of lines, a line a sequence of
\* words
Absent == [kind |-> "absent"]
Dir == [kind |-> "dir"]
File(readable, text) == [kind |-> "file", readable |-> readable, text |-> text]
Unreadable == File(FALSE, <<>>)

NoFiles == [p \in PathNames |-> Absent]

\* a directory name may be written with a trailing slash
Norm(p) ==
    CASE p = "docs/" -> "docs"
      [] p = "src/" -> "src"
      [] p = "build/" -> "build"
      [] p = "logs/" -> "logs"
      [] p = "models/" -> "models"
      [] p = ".github/workflows/" -> ".github/workflows"
      [] OTHER -> p

\* (project_path / p).exists() and .is_dir()
Exists(t, p) ==
    t.root /\ Norm(p) \in PathNames /\ t.files[Norm(p)].kind # "absent"
IsDir(t, p) == Exists(t, p) /\ t.files[Norm(p)].kind = "dir"

\* (project_path / d).rglob(glob): the matching entries below d, in walk
\* order; nothing when d is not an existing directory
RGlob(t, d, glob) ==
    LET \* p lies below directory dir ("" is the project root)
        RECURSIVE Below(_, _)
        Below(p, dir) ==
            IF dir = "" THEN TRUE
            ELSE IF p = "" THEN FALSE
            ELSE PathInfo(p).parent = dir \/ Below(PathInfo(p).parent, dir)
        \* fnmatch of a name against the glob patterns the experts use
        GlobMatches(info) ==
            CASE glob = "*.py" -> info.ext = ".py"
              [] glob = "*.md" -> info.ext = ".md"
              [] glob = "*.yml" -> info.ext = ".yml"
              [] glob = "*.yaml" -> info.ext = ".yaml"
              [] glob = "*.json" -> info.ext = ".json"
              [] glob = "*architecture*" -> info.name \in {"architecture.md"}
              [] glob = "*design*" -> FALSE
              [] OTHER -> info.name = glob
        Hit(info) == /\ Exists(t, info.path)
                     /\ Below(info.path, Norm(d))
                     /\ GlobMatches(info)
        hits == SelectSeq(Paths, Hit)
    IN  IF t.root /\ (d = "" \/ IsDir(t, d))
        THEN [i \in 1..Len(hits) |-> hits[i].path]
        ELSE <<>>

\* the outcome of reading a path as text: the text, or an OSError
ReadText(t, p) ==
    IF Exists(t, p) /\ t.files[p].kind = "file" /\ t.files[p].readable
    THEN [error |-> FALSE, text |-> t.files[p].text]
    ELSE [error |-> TRUE, text |-> <<>>]

\* content.lower(), with str.lower() of the words of the samples
lower(content) ==
    LET Lower(word) ==
            CASE word = "## Architecture" -> "## architecture"
              [] word = "Design notes" -> "design notes"
              [] word = "ERROR: step 3" -> "error: step 3"
              [] word = "Link FAILED" -> "link failed"
              [] word = "{\"MCP\": {}}" -> "{\"mcp\": {}}"
              [] word = "{\"Model\": \"m\"}" -> "{\"model\": \"m\"}"
              [] word = "# Tool" -> "# tool"
              [] OTHER -> word
    IN  [i \in 1..Len(content) |->
            [j \in 1..Len(content[i]) |-> Lower(content[i][j])]]

\* needle in content, with the substrings the experts look for that occur
\* in a word of the samples
in_(needle, content) ==
    LET Mentions(word) ==
            CASE word = "## architecture" -> {"architecture"}
              [] word = "design notes" -> {"design"}
              [] word = "[build-system]" -> {"build-system"}
              [] word = "dependencies = ['x>=1']" -> {"dependencies", ">="}
              [] word = "dependencies = ['x==1']" -> {"dependencies", "=="}
              [] word = "x>=1" -> {">="}
              [] word = "x==1" -> {"=="}
              [] word = "[tool.black] line-length = 88" -> {"black", "line-length"}
              [] word = "[tool.mypy] warn_return_any = true" ->
                    {"mypy", "warn_return_any"}
              [] word = "error: step 3" -> {"error"}
              [] word = "link failed" -> {"failed"}
              [] word = "{\"mcp\": {}}" -> {"mcp"}
              [] word = "{\"mcp\": {\"server\": \"x\"}}" -> {"mcp", "server"}
              [] word = "{\"model\": \"m\"}" -> {"model"}
              [] word = "{\"model\": \"m\", \"version\": 1}" -> {"model", "version"}
              [] word = "run: flake8 ." -> {"flake8"}
              [] word = "[flake8]" -> {"flake8"}
              [] OTHER -> {}
    IN  \E i \in 1..Len(content) :
            \E j \in 1..Len(content[i]) :
                needle \in Mentions(content[i][j])

\* ------------------------------------------------------------ exceptions
\* What a block of code did: the findings it appended, and whether it
\* raised.
Ok(found) == [error |-> FALSE, found |-> found]
Fail(found) == [error |-> TRUE, found |-> found]

\* first, then next: an exception in first skips next
Then(first, next) ==
    IF first.error THEN first
    ELSE [error |-> next.error, found |-> first.found \o next.found]

\* a handler that lets the exception pass
Uncaught(outcome) == outcome

\* except Exception: the warning is logged and the exception ends there;
\* what was appended before it stays
Caught(outcome) == [outcome EXCEPT !.error = FALSE]

\* try: read the file, with outcome the rest of the block run on its text;
\* except Exception
TryRead(t, p, outcome) ==
    Caught(IF ReadText(t, p).error THEN Fail(<<>>) ELSE outcome)

\* if path.exists(): block
IfExists(t, p, outcome) == IF Exists(t, p) THEN outcome ELSE Ok(<<>>)

\* ------------------------------------------------------ the Security scan
\* SecurityExpert.detect_hallucinations, credential_patterns
credential_patterns == <<
    "sk-[a-zA-Z0-9]{48}",
    "pk_[a-zA-Z0-9]{48}",
    "AKIA[a-zA-Z0-9]{16}",
    "ghp_[a-zA-Z0-9]{36}",
    "gho_[a-zA-Z0-9]{36}" >>

\* SecurityExpert.detect_hallucinations, subprocess_patterns
subprocess_patterns == <<
    "import subprocess",
    "subprocess\\.run",
    "subprocess\\.Popen",
    "subprocess\\.call",
    "os\\.system",
    "os\\.popen" >>

\* a 51-character secret key: "sk-" and 48 letters and digits
SecretKey == "sk-abcdefghijklmnopqrstuvwxyzABCDEFGHIJKLMNOPQRSTUV"

\* a line that imports subprocess and runs two commands
ShellLine == "import subprocess; subprocess.run(cmd); os.system(cmd)"

\* the characters of the words of the sample Python files
Chars(word) ==
    CASE word = "pass" ->
            <<"p", "a", "s", "s">>
      [] word = "API_KEY =" ->
            <<"A", "P", "I", "_", "K", "E", "Y", " ", "=">>
      [] word = SecretKey ->
            <<"s", "k", "-", "a", "b", "c", "d", "e", "f", "g", "h", "i",
              "j", "k", "l", "m", "n", "o", "p", "q", "r", "s", "t", "u",
              "v", "w", "x", "y", "z", "A", "B", "C", "D", "E", "F", "G",
              "H", "I", "J", "K", "L", "M", "N", "O", "P", "Q", "R", "S",
              "T", "U", "V">>
      [] word = ShellLine ->
            <<"i", "m", "p", "o", "r", "t", " ", "s", "u", "b", "p", "r",
              "o", "c", "e", "s", "s", ";", " ", "s", "u", "b", "p", "r",
              "o", "c", "e", "s", "s", ".", "r", "u", "n", "(", "c", "m",
              "d", ")", ";", " ", "o", "s", ".", "s", "y", "s", "t", "e",
              "m", "(", "c", "m", "d", ")">>
      [] word = "AKIA0123456789ABCDEF" ->
            <<"A", "K", "I", "A", "0", "1", "2", "3", "4", "5", "6", "7",
              "8", "9", "A", "B", "C", "D", "E", "F">>
      [] word = "sk-abcdefghijklmnopqrstuvwx" ->
            <<"s", "k", "-", "a", "b", "c", "d", "e", "f", "g", "h", "i",
              "j", "k", "l", "m", "n", "o", "p", "q", "r", "s", "t", "u",
              "v", "w", "x">>
      [] word = "yzABCDEFGHIJKLMNOPQRSTUV" ->
            <<"y", "z", "A", "B", "C", "D", "E", "F", "G", "H", "I", "J",
              "K", "L", "M", "N", "O", "P", "Q", "R", "S", "T", "U", "V">>
      [] word = "import" ->
            <<"i", "m", "p", "o", "r", "t">>
      [] word = "subprocess" ->
            <<"s", "u", "b", "p", "r", "o", "c", "e", "s", "s">>
      [] word = "os.popen(cmd)" ->
            <<"o", "s", ".", "p", "o", "p", "e", "n", "(", "c", "m", "d",
              ")">>

\* py_file.read_text(): the characters of the file, the words of a line
\* separated by a blank and the lines by a line break
Content(text) ==
    LET RECURSIVE Line(_)
        Line(words) ==
            IF words = <<>> THEN <<>>
            ELSE IF Len(words) = 1 THEN Chars(words[1])
            ELSE Chars(Head(words)) \o <<" ">> \o Line(Tail(words))
        RECURSIVE Lines(_)
        Lines(ls) ==
            IF ls = <<>> THEN <<>>
            ELSE IF Len(ls) = 1 THEN Line(ls[1])
            ELSE Line(Head(ls)) \o <<"\n">> \o Lines(Tail(ls))
    IN  Lines(text)

\* content.split('\n'): the pieces between the line breaks, at least one
\* (CHOOSE got \in {F(v) : v \in {value}} : TRUE is F(value) with the value
\* computed once, as the assignment to a local computes it)
split(content) ==
    LET Pieces(breaks) ==
            LET \* the position of the k-th line break
                Break(k) ==
                    CHOOSE b \in breaks :
                        Cardinality({c \in breaks : c < b}) = k - 1
                First(k) == IF k = 1 THEN 1 ELSE Break(k - 1) + 1
                Last(k) ==
                    IF k = Cardinality(breaks) + 1 THEN Len(content)
                    ELSE Break(k) - 1
            IN  [k \in 1..(Cardinality(breaks) + 1) |->
                    SubSeq(content, First(k), Last(k))]
    IN  CHOOSE got \in
            {Pieces(v) : v \in {{i \in 1..Len(content) : content[i] = "\n"}}} :
            TRUE

\* re.compile(pattern): the characters that each position of a match may
\* hold; every pattern of the two families is a run of literal characters
\* and of [a-zA-Z0-9], so that a match has a fixed length
Regex(pattern) ==
    LET \* [a-zA-Z0-9]
        alnum ==
            {"a", "b", "c", "d", "e", "f", "g", "h", "i", "j", "k", "l",
             "m", "n", "o", "p", "q", "r", "s", "t", "u", "v", "w", "x",
             "y", "z", "A", "B", "C", "D", "E", "F", "G", "H", "I", "J",
             "K", "L", "M", "N", "O", "P", "Q", "R", "S", "T", "U", "V",
             "W", "X", "Y", "Z", "0", "1", "2", "3", "4", "5", "6", "7",
             "8", "9"}
        \* the characters cs, each standing for itself
        Literal(cs) == [i \in 1..Len(cs) |-> {cs[i]}]
        \* [a-zA-Z0-9]{n}
        Class(n) == [i \in 1..n |-> alnum]
    IN  CASE pattern = "sk-[a-zA-Z0-9]{48}" ->
                Literal(<<"s", "k", "-">>) \o Class(48)
          [] pattern = "pk_[a-zA-Z0-9]{48}" ->
                Literal(<<"p", "k", "_">>) \o Class(48)
          [] pattern = "AKIA[a-zA-Z0-9]{16}" ->
                Literal(<<"A", "K", "I", "A">>) \o Class(16)
          [] pattern = "ghp_[a-zA-Z0-9]{36}" ->
                Literal(<<"g", "h", "p", "_">>) \o Class(36)
          [] pattern = "gho_[a-zA-Z0-9]{36}" ->
                Literal(<<"g", "h", "o", "_">>) \o Class(36)
          [] pattern = "import subprocess" ->
                Literal(<<"i", "m", "p", "o", "r", "t", " ", "s", "u", "b", "p",
                      "r", "o", "c", "e", "s", "s">>)
          [] pattern = "subprocess\\.run" ->
                Literal(<<"s", "u", "b", "p", "r", "o", "c", "e", "s", "s", ".",
                      "r", "u", "n">>)
          [] pattern = "subprocess\\.Popen" ->
                Literal(<<"s", "u", "b", "p", "r", "o", "c", "e", "s", "s", ".",
                      "P", "o", "p", "e", "n">>)
          [] pattern = "subprocess\\.call" ->
                Literal(<<"s", "u", "b", "p", "r", "o", "c", "e", "s", "s", ".",
                      "c", "a", "l", "l">>)
          [] pattern = "os\\.system" ->
                Literal(<<"o", "s", ".", "s", "y", "s", "t", "e", "m">>)
          [] pattern = "os\\.popen" ->
                Literal(<<"o", "s", ".", "p", "o", "p", "e", "n">>)

\* re.search(pattern, content): some run of characters of content matches
re_search(pattern, content) ==
    LET Found(atoms) ==
            \E p \in 1..(Len(content) - Len(atoms) + 1) :
                \A i \in 1..Len(atoms) : content[p + i - 1] \in atoms[i]
    IN  CHOOSE got \in {Found(v) : v \in {Regex(pattern)}} : TRUE

\* enumerate(lines) without its start: the lines are counted from 0
_find_line_number_from_zero(content, pattern) ==
    LET First(lines) ==
            IF \E i \in 1..Len(lines) : re_search(pattern, lines[i])
            THEN (CHOOSE i \in 1..Len(lines) :
                    /\ re_search(pattern, lines[i])
                    /\ \A k \in 1..(i - 1) : ~re_search(pattern, lines[k])) - 1
            ELSE 0
    IN  CHOOSE got \in {First(v) : v \in {split(content)}} : TRUE

\* a loop without its return: the last matching line is kept
_find_line_number_last(content, pattern) ==
    LET Last(lines) ==
            IF \E i \in 1..Len(lines) : re_search(pattern, lines[i])
            THEN CHOOSE i \in 1..Len(lines) :
                    /\ re_search(pattern, lines[i])
                    /\ \A k \in (i + 1)..Len(lines) :
                            ~re_search(pattern, lines[k])
            ELSE 0
    IN  CHOOSE got \in {Last(v) : v \in {split(content)}} : TRUE

\* SecurityExpert._find_line_number
_find_line_number(content, pattern) ==
    LET First(lines) ==
            IF \E i \in 1..Len(lines) : re_search(pattern, lines[i])
            THEN CHOOSE i \in 1..Len(lines) :
                    /\ re_search(pattern, lines[i])
                    /\ \A k \in 1..(i - 1) : ~re_search(pattern, lines[k])
            ELSE 0
    IN  CHOOSE got \in {First(v) : v \in {split(content)}} : TRUE

\* a scan that searches line by line and appends at every matching line
CredentialFindings_per_line(py_file, content) ==
    LET Scan(lines) ==
            LET n == Len(credential_patterns)
                \* the k-th pair of a line and a pattern, line by line
                LineOf(k) == ((k - 1) \div n) + 1
                PatternOf(k) == credential_patterns[((k - 1) % n) + 1]
                Hit(k) == re_search(PatternOf(k), lines[LineOf(k)])
                Found(hits) ==
                    [i \in 1..Len(hits) |->
                        [type |-> "security_vulnerability",
                         file |-> py_file,
                         pattern |-> PatternOf(hits[i]),
                         priority |-> "high",
                         description |->
                            <<"Potential hardcoded credential found: ",
                              PatternOf(hits[i])>>,
                         line |-> LineOf(hits[i])]]
            IN  CHOOSE got \in
                    {Found(v) : v \in
                        {SelectSeq([k \in 1..(Len(lines) * n) |-> k], Hit)}} :
                    TRUE
    IN  CHOOSE got \in {Scan(v) : v \in {split(content)}} : TRUE

\* for pattern in credential_patterns: if re.search(pattern, content): append
CredentialFindings(py_file, content) ==
    LET Hit(pattern) == re_search(pattern, content)
        Found(hits) ==
            [i \in 1..Len(hits) |->
                [type |-> "security_vulnerability",
                 file |-> py_file,
                 pattern |-> hits[i],
                 priority |-> "high",
                 description |-> <<"Potential hardcoded credential found: ",
                                   hits[i]>>,
                 line |-> _find_line_number(content, hits[i])]]
    IN  CHOOSE got \in {Found(v) : v \in {SelectSeq(credential_patterns, Hit)}} : TRUE

\* a loop over the subprocess patterns that ends at the first match
SubprocessFindings_first_match(py_file, content) ==
    LET Hit(pattern) == re_search(pattern, content)
        Found(hits) ==
            [i \in 1..Min2(1, Len(hits)) |->
                [type |-> "subprocess_vulnerability",
                 file |-> py_file,
                 pattern |-> hits[i],
                 priority |-> "critical",
                 description |-> <<"Subprocess usage detected: ", hits[i],
                                   " - Security risk for command injection">>,
                 line |-> _find_line_number(content, hits[i])]]
    IN  CHOOSE got \in {Found(v) : v \in {SelectSeq(subprocess_patterns, Hit)}} : TRUE

\* for pattern in subprocess_patterns: if re.search(pattern, content): append
SubprocessFindings(py_file, content) ==
    LET Hit(pattern) == re_search(pattern, content)
        Found(hits) ==
            [i \in 1..Len(hits) |->
                [type |-> "subprocess_vulnerability",
                 file |-> py_file,
                 pattern |-> hits[i],
                 priority |-> "critical",
                 description |-> <<"Subprocess usage detected: ", hits[i],
                                   " - Security risk for command injection">>,
                 line |-> _find_line_number(content, hits[i])]]
    IN  CHOOSE got \in {Found(v) : v \in {SelectSeq(subprocess_patterns, Hit)}} : TRUE

\* a scan that looks for the process-spawn constructs first
ScanPyFile_commands_first(t, py_file) ==
    LET read == ReadText(t, py_file)
        Scan(content) ==
            Ok(SubprocessFindings(py_file, content)
               \o CredentialFindings(py_file, content))
    IN  IF read.error THEN Fail(<<>>)
        ELSE CHOOSE got \in {Scan(v) : v \in {Content(read.text)}} : TRUE

\* the body of the try block for one file: what it appends, and whether it
\* raised
ScanPyFile(t, py_file) ==
    LET read == ReadText(t, py_file)
        Scan(content) ==
            Ok(CredentialFindings(py_file, content)
               \o SubprocessFindings(py_file, content))
    IN  IF read.error THEN Fail(<<>>)
        ELSE CHOOSE got \in {Scan(v) : v \in {Content(read.text)}} : TRUE

\* a finding of the experts that analyse existing artifacts
Issue(type, file, description, priority, tool, source) ==
    [type |-> type, file |-> file, description |-> description,
     priority |-> priority, tool |-> tool, source |-> source]

\* the paths of names that exist, in list order
Existing(t, names) ==
    LET Hit(name) == Exists(t, name) IN SelectSeq(names, Hit)

\* --------------------------------------------------------- the Build expert
\* BuildExpert._find_existing_build_data
_find_existing_build_data(t) ==
    Existing(t, <<"pyproject.toml", "setup.py", "setup.cfg", "build.py",
                  "Makefile", "dockerfile", "Dockerfile">>)
    \o Existing(t, <<"build/", "dist/", "*.egg-info/", "target/">>)

\* BuildExpert._analyze_build_config
_analyze_build_config(t) ==
    LET content == ReadText(t, "pyproject.toml").text
    IN  IfExists(t, "pyproject.toml",
            TryRead(t, "pyproject.toml",
                Ok(IF ~in_("build-system", content)
                   THEN <<Issue("build_config_issue", "pyproject.toml",
                                "Missing build-system configuration",
                                "medium", "build_config", "existing_config")>>
                   ELSE <<>>)))

\* BuildExpert._analyze_build_logs: the block of the loop for each log file
_analyze_build_logs(t) ==
    LET BuildLog(log_path) ==
            LET content == ReadText(t, log_path).text
            IN  IfExists(t, log_path,
                    TryRead(t, log_path,
                        Ok(IF \/ in_("error", lower(content))
                              \/ in_("failed", lower(content))
                           THEN <<Issue("build_failure", log_path,
                                        "Build log contains error or failure messages",
                                        "high", "build_logs",
                                        "existing_logs")>>
                           ELSE <<>>)))
    IN  Then(BuildLog("build.log"),
             Then(BuildLog("make.log"), BuildLog("docker.log")))

\* ----------------------------------------------------------- the MCP expert
\* MCPExpert._find_existing_mcp_data
_find_existing_mcp_data(t) ==
    Existing(t, <<"mcp_config.json", "mcp.yaml", "mcp.toml", ".mcp",
                  "mcp_server.json", "mcp_client.json">>)
    \o Existing(t, <<"logs/", "mcp_logs/", ".mcp_logs/">>)

\* MCPExpert._analyze_mcp_config: the block of the loop for each
\* configuration file
_analyze_mcp_config(t) ==
    LET McpConfig(config_file) ==
            LET content == ReadText(t, config_file).text
            IN  IfExists(t, config_file,
                    TryRead(t, config_file,
                        Ok(IF /\ in_("mcp", lower(content))
                              /\ ~in_("server", content)
                              /\ ~in_("client", content)
                           THEN <<Issue("mcp_config_issue", config_file,
                                        "MCP configuration missing server/client specification",
                                        "medium", "mcp_config",
                                        "existing_config")>>
                           ELSE <<>>)))
    IN  Then(McpConfig("mcp_config.json"), McpConfig("mcp.yaml"))

\* MCPExpert._analyze_mcp_logs: the block of the loop for each log file
_analyze_mcp_logs(t) ==
    LET McpLog(log_path) ==
            LET content == ReadText(t, log_path).text
            IN  IfExists(t, log_path,
                    TryRead(t, log_path,
                        Ok(IF \/ in_("error", lower(content))
                              \/ in_("failed", lower(content))
                           THEN <<Issue("mcp_failure", log_path,
                                        "MCP log contains error or failure messages",
                                        "high", "mcp_logs", "existing_logs")>>
                           ELSE <<>>)))
    IN  Then(McpLog("mcp.log"),
             Then(McpLog("mcp_server.log"), McpLog("mcp_client.log")))

\* --------------------------------------------------------- the Model expert
\* ModelExpert._find_existing_model_data
_find_existing_model_data(t) ==
    Existing(t, <<"model_config.json", "model.yaml", "config.yaml",
                  "hyperparameters.json", "model_params.json">>)
    \o Existing(t, <<"models/", "checkpoints/", "outputs/", "results/">>)

\* ModelExpert._analyze_model_config: the block of the loop for each
\* configuration file
_analyze_model_config(t) ==
    LET ModelConfig(config_file) ==
            LET content == ReadText(t, config_file).text
            IN  IfExists(t, config_file,
                    TryRead(t, config_file,
                        Ok(IF /\ in_("model", lower(content))
                              /\ ~in_("version", content)
                           THEN <<Issue("model_config_issue", config_file,
                                        "Model configuration missing version information",
                                        "medium", "model_config",
                                        "existing_config")>>
                           ELSE <<>>)))
    IN  Then(ModelConfig("model_config.json"), ModelConfig("config.yaml"))

\* ModelExpert._analyze_model_outputs: the block of the loop for each
\* output file
_analyze_model_outputs(t) ==
    LET ModelOutput(log_path) ==
            LET content == ReadText(t, log_path).text
            IN  IfExists(t, log_path,
                    TryRead(t, log_path,
                        Ok(IF \/ in_("error", lower(content))
                              \/ in_("failed", lower(content))
                           THEN <<Issue("model_failure", log_path,
                                        "Model log contains error or failure messages",
                                        "high", "model_logs",
                                        "existing_logs")>>
                           ELSE <<>>)))
    IN  Then(ModelOutput("model.log"),
             Then(ModelOutput("training.log"),
                  ModelOutput("evaluation.log")))

\* -------------------------------------------------- the Architecture expert
\* ArchitectureExpert._find_existing_architecture_data: the loop over
\* doc_files with "*.md", then the loop over structure_files with "*.py"
_find_existing_architecture_data(t) ==
    LET \* what one name adds to arch_files
        ArchData(name, glob) ==
            IF ~Exists(t, name) THEN <<>>
            ELSE IF IsDir(t, name) THEN RGlob(t, name, glob)
            ELSE <<Norm(name)>>
        RECURSIVE ArchDataOf(_, _)
        ArchDataOf(names, glob) ==
            IF names = <<>> THEN <<>>
            ELSE ArchData(Head(names), glob) \o ArchDataOf(Tail(names), glob)
    IN  ArchDataOf(<<"README.md", "ARCHITECTURE.md", "DESIGN.md", "docs/",
                     "adr/", "decisions/", "architecture/", "design/">>,
                   "*.md")
        \o ArchDataOf(<<"pyproject.toml", "setup.py", "requirements.txt",
                        "src/", "lib/", "app/", "core/">>, "*.py")

\* ArchitectureExpert._analyze_architecture_docs
_analyze_architecture_docs(t) ==
    LET content == ReadText(t, "README.md").text
        arch_docs == RGlob(t, "docs", "*architecture*")
                     \o RGlob(t, "docs", "*design*")
    IN  Then(IfExists(t, "README.md",
                TryRead(t, "README.md",
                    Ok(IF /\ ~in_("architecture", lower(content))
                          /\ ~in_("design", lower(content))
                       THEN <<Issue("documentation_issue", "README.md",
                                    "README missing architecture/design section",
                                    "medium", "documentation",
                                    "existing_docs")>>
                       ELSE <<>>))),
             IfExists(t, "docs",
                Ok(IF arch_docs = <<>>
                   THEN <<Issue("documentation_issue", "docs",
                                "Docs directory missing architecture/design documentation",
                                "medium", "documentation", "existing_docs")>>
                   ELSE <<>>)))

\* more Python files than this in a project without src/ are a finding
FlatThreshold == 10

\* ArchitectureExpert._analyze_code_structure
_analyze_code_structure(t) ==
    IF Exists(t, "src")
    THEN LET py_files == RGlob(t, "src", "*.py")
             init_files == RGlob(t, "src", "__init__.py")
             parents == {PathInfo(py_files[i]).parent : i \in DOMAIN py_files}
         IN  Ok(IF py_files # <<>> /\ Len(init_files) < Cardinality(parents)
                THEN <<Issue("structure_issue", "src",
                             "Some Python packages missing __init__.py files",
                             "medium", "code_structure",
                             "existing_structure")>>
                ELSE <<>>)
    ELSE Ok(IF Len(RGlob(t, "", "*.py")) > FlatThreshold
            THEN <<Issue("structure_issue", "",
                         "Consider organizing code into src/ directory structure",
                         "low", "code_structure", "existing_structure")>>
            ELSE <<>>)

\* ArchitectureExpert._analyze_dependencies: the block for pyproject.toml,
\* then the block for requirements.txt
_analyze_dependencies(t) ==
    LET pyproject == ReadText(t, "pyproject.toml").text
        requirements == ReadText(t, "requirements.txt").text
        Pin(file) ==
            Issue("dependency_issue", file,
                  "Consider pinning dependency versions for reproducibility",
                  "medium", "dependency_management", "existing_config")
    IN  Then(IfExists(t, "pyproject.toml",
                TryRead(t, "pyproject.toml",
                    Ok(IF /\ in_("dependencies", pyproject)
                          /\ in_(">=", pyproject) /\ ~in_("==", pyproject)
                       THEN <<Pin("pyproject.toml")>>
                       ELSE <<>>))),
             IfExists(t, "requirements.txt",
                TryRead(t, "requirements.txt",
                    Ok(IF in_(">=", requirements) /\ ~in_("==", requirements)
                       THEN <<Pin("requirements.txt")>>
                       ELSE <<>>))))

\* --------------------------------------------------- the CodeQuality expert
\* CodeQualityExpert._find_existing_tool_outputs: the names of tool_outputs
\* that exist, then what each CI directory adds to output_files
_find_existing_tool_outputs(t) ==
    LET CiArtifacts(ci_dir) ==
            IF Exists(t, ci_dir)
            THEN RGlob(t, ci_dir, "*.yml") \o RGlob(t, ci_dir, "*.yaml")
                 \o RGlob(t, ci_dir, "*.json")
            ELSE <<>>
    IN  Existing(t, <<"pyproject.toml", ".ruff.toml", "pytest.ini",
                      "setup.cfg", ".flake8", "tox.ini", "coverage.xml",
                      "htmlcov/", "logs/", ".github/workflows/",
                      ".gitlab-ci.yml">>)
        \o CiArtifacts(".github") \o CiArtifacts(".gitlab-ci")
        \o CiArtifacts(".circleci") \o CiArtifacts("ci")
        \o CiArtifacts("jenkins")

\* the JSON documents of the sample reports
Flake8JsonReports ==
    [empty_list |-> "[]",
     one_issue |->
        "[{\"filename\": \"a.py\", \"line_number\": 3, \"column_number\": 1, \"code\": \"E501\", \"text\": \"line too long\"}]",
     issue_then_number |-> "[{\"code\": \"W291\"}, 7]",
     broken |-> "{not json"]

\* json.load(f): the list parsed, its items JSON objects or other JSON
\* values, or a JSONDecodeError; an empty file is not a JSON document
json_load(content) ==
    IF content = <<<<Flake8JsonReports.empty_list>>>>
    THEN [error |-> FALSE, data |-> <<>>]
    ELSE IF content = <<<<Flake8JsonReports.one_issue>>>>
    THEN [error |-> FALSE,
          data |-> <<[object |-> TRUE,
                      fields |-> [filename |-> "a.py", line_number |-> 3,
                                  column_number |-> 1, code |-> "E501",
                                  text |-> "line too long"]]>>]
    ELSE IF content = <<<<Flake8JsonReports.issue_then_number>>>>
    THEN [error |-> FALSE,
          data |-> <<[object |-> TRUE, fields |-> [code |-> "W291"]],
                     [object |-> FALSE, number |-> 7]>>]
    ELSE [error |-> TRUE, data |-> <<>>]

\* the finding of one flake8 issue
Flake8Issue(file, line, column, code, description) ==
    [type |-> "code_quality_issue", file |-> file, line |-> line,
     column |-> column, code |-> code, description |-> description,
     priority |-> "medium", tool |-> "flake8", source |-> "existing_output"]

\* for issue in data: issues.append(...); an item without .get raises an
\* AttributeError after the items before it were appended
RECURSIVE Flake8JsonIssues(_)
Flake8JsonIssues(data) ==
    IF data = <<>> THEN Ok(<<>>)
    ELSE IF ~Head(data).object THEN Fail(<<>>)
    ELSE LET issue == Head(data).fields
         IN  Then(Ok(<<Flake8Issue(DictGet(issue, "filename", "unknown"),
                                   DictGet(issue, "line_number", 0),
                                   DictGet(issue, "column_number", 0),
                                   DictGet(issue, "code", ""),
                                   DictGet(issue, "text", ""))>>),
                  Flake8JsonIssues(Tail(data)))

\* the lines of the sample text reports and configuration files
Flake8TextLines ==
    [issue |-> "a.py:1:2: E501 line too long",
     odd_line |-> "a.py:x:2: W1: note: odd",
     no_code |-> "a.py:1:2:",
     setting |-> "max-line-length: 100",
     section |-> "[flake8]"]

\* the finding of one line of a text report, if it has one
Flake8TextLine(line) ==
    LET \* line.strip().split(':')
        parts ==
            IF line = <<Flake8TextLines.issue>>
            THEN <<"a.py", "1", "2", " E501 line too long">>
            ELSE IF line = <<Flake8TextLines.odd_line>>
            THEN <<"a.py", "x", "2", " W1", " note", " odd">>
            ELSE IF line = <<Flake8TextLines.no_code>>
            THEN <<"a.py", "1", "2", "">>
            ELSE IF line = <<Flake8TextLines.setting>>
            THEN <<"max-line-length", " 100">>
            ELSE <<line>>
        \* int(part) if part.isdigit() else 0
        IntOrZero(part) ==
            CASE part = "1" -> 1
              [] part = "2" -> 2
              [] OTHER -> 0
        \* part.split()
        SplitBlank(part) ==
            CASE part = " E501 line too long" ->
                    <<"E501", "line", "too", "long">>
              [] part = " W1" -> <<"W1">>
              [] OTHER -> <<>>
        \* ':'.join(rest).strip()
        JoinColonStrip(rest) ==
            CASE rest = <<" E501 line too long">> -> "E501 line too long"
              [] rest = <<" W1", " note", " odd">> -> "W1: note: odd"
              [] OTHER -> ""
    IN  IF Len(parts) >= 2 /\ Len(parts) >= 4
        THEN <<Flake8Issue(parts[1], IntOrZero(parts[2]), IntOrZero(parts[3]),
                           IF Len(SplitBlank(parts[4])) > 0
                           THEN SplitBlank(parts[4])[1] ELSE "",
                           JoinColonStrip(SubSeq(parts, 4, Len(parts))))>>
        ELSE <<>>

\* for line in f
RECURSIVE Flake8TextIssues(_)
Flake8TextIssues(content) ==
    IF content = <<>> THEN <<>>
    ELSE Flake8TextLine(Head(content)) \o Flake8TextIssues(Tail(content))

\* CodeQualityExpert._analyze_existing_flake8_outputs: the block of the loop
\* for each flake8 file
_analyze_existing_flake8_outputs(t) ==
    LET Flake8File(flake8_file) ==
            LET content == ReadText(t, flake8_file).text
                loaded == json_load(content)
            IN  IfExists(t, flake8_file,
                    TryRead(t, flake8_file,
                        IF PathInfo(flake8_file).ext = ".json"
                        THEN IF loaded.error THEN Fail(<<>>)
                             ELSE Flake8JsonIssues(loaded.data)
                        ELSE Ok(Flake8TextIssues(content))))
    IN  Then(Flake8File("flake8_report.json"),
             Then(Flake8File("flake8_report.txt"), Flake8File(".flake8")))

\* CodeQualityExpert._analyze_existing_black_outputs: the block of the loop
\* for each black file
_analyze_existing_black_outputs(t) ==
    LET BlackFile(black_file) ==
            LET content == ReadText(t, black_file).text
            IN  IfExists(t, black_file,
                    TryRead(t, black_file,
                        Ok(IF /\ in_("black", lower(content))
                              /\ in_("line-length", content)
                                 \/ in_("target-version", content)
                           THEN <<Issue("formatting_config", black_file,
                                        "Black formatter configuration found",
                                        "low", "black", "existing_config")>>
                           ELSE <<>>)))
    IN  Then(BlackFile("black_report.txt"), BlackFile("pyproject.toml"))

\* CodeQualityExpert._analyze_existing_mypy_outputs: the block of the loop
\* for each mypy file
_analyze_existing_mypy_outputs(t) ==
    LET MypyFile(mypy_file) ==
            LET content == ReadText(t, mypy_file).text
            IN  IfExists(t, mypy_file,
                    TryRead(t, mypy_file,
                        Ok(IF /\ in_("mypy", lower(content))
                              /\ in_("warn_return_any", content)
                                 \/ in_("disallow_untyped_defs", content)
                           THEN <<Issue("type_checking_config", mypy_file,
                                        "MyPy type checker configuration found",
                                        "low", "mypy", "existing_config")>>
                           ELSE <<>>)))
    IN  Then(MypyFile("mypy_report.txt"),
             Then(MypyFile("pyproject.toml"), MypyFile("setup.cfg")))

\* CodeQualityExpert._analyze_existing_ci_logs: for each CI directory that
\* exists, the try block for each workflow file of ci_path.rglob("*.yml")
_analyze_existing_ci_logs(t) ==
    LET CiConfig(config_file) ==
            LET content == ReadText(t, config_file).text
            IN  TryRead(t, config_file,
                    Ok(IF \/ in_("flake8", content) \/ in_("black", content)
                          \/ in_("mypy", content)
                       THEN <<Issue("ci_quality_integration", config_file,
                                    "Quality tools integrated in CI/CD pipeline",
                                    "low", "ci_cd", "existing_config")>>
                       ELSE <<>>))
        RECURSIVE CiConfigs(_)
        CiConfigs(config_files) ==
            IF config_files = <<>> THEN Ok(<<>>)
            ELSE Then(CiConfig(Head(config_files)),
                      CiConfigs(Tail(config_files)))
        CiDir(ci_dir) ==
            IfExists(t, ci_dir, CiConfigs(RGlob(t, ci_dir, "*.yml")))
    IN  Then(CiDir(".github"),
             Then(CiDir(".gitlab-ci"),
                  Then(CiDir(".circleci"),
                       Then(CiDir("ci"), CiDir("jenkins")))))

\* the recommendation lists of SecurityExpert.detect_hallucinations
SecurityRecommendations ==
    [issues_found |-> <<
        "Use environment variables for credentials",
        "Implement secret management",
        "Replace subprocess calls with native Python operations",
        "Use Go/Rust for performance-critical shell operations",
        "Implement gRPC shell service for secure command execution" >>,
     all_clear |-> <<
        "No security issues detected",
        "Continue monitoring for security vulnerabilities",
        "Implement automated security scanning in CI/CD" >>]

\* the recommendation lists of ArchitectureExpert.detect_hallucinations
ArchitectureRecommendations ==
    [no_data |-> <<
        "No existing architecture documentation found",
        "Consider creating architecture decision records (ADRs)",
        "Document system components and their relationships",
        "Create dependency diagrams and system maps" >>,
     issues_found |-> <<
        "Review and improve architecture documentation",
        "Address structural issues in code organization",
        "Update dependency management and versioning",
        "Consider implementing architectural patterns",
        "Document system boundaries and interfaces" >>,
     all_clear |-> <<
        "Architecture appears well-documented based on existing files",
        "Continue monitoring architectural decisions",
        "Consider implementing advanced architectural patterns",
        "Add performance and scalability documentation" >>]

\* the recommendation lists of BuildExpert.detect_hallucinations
BuildRecommendations ==
    [no_data |-> <<
        "No existing build configuration found",
        "Consider setting up proper build tools (poetry, pip, etc.)",
        "Implement automated build pipelines",
        "Set up build artifact management" >>,
     issues_found |-> <<
        "Review and fix build configuration issues",
        "Address build failures identified in logs",
        "Improve build automation and pipelines",
        "Consider implementing build caching strategies" >>,
     all_clear |-> <<
        "Build configuration appears sound based on existing files",
        "Continue monitoring build performance",
        "Consider implementing advanced build strategies",
        "Add build metrics and monitoring" >>]

\* the recommendation lists of CodeQualityExpert.detect_hallucinations
CodeQualityRecommendations ==
    [no_data |-> <<
        "No existing code quality tool outputs found",
        "Consider running quality tools and saving outputs for analysis",
        "Set up CI/CD pipeline to capture tool outputs",
        "Use pre-commit hooks to generate quality reports" >>,
     issues_found |-> <<
        "Address code quality issues found in existing tool outputs",
        "Review and fix flake8 violations",
        "Run black formatter to fix formatting issues",
        "Add proper type annotations based on mypy findings",
        "Consider implementing pre-commit hooks for automated quality checks",
        "Set up quality gates in CI/CD pipeline" >>,
     all_clear |-> <<
        "Code quality checks passed based on existing tool outputs",
        "Continue monitoring with automated quality checks",
        "Consider adding more comprehensive quality analysis tools" >>]

\* the recommendation lists of MCPExpert.detect_hallucinations
MCPRecommendations ==
    [no_data |-> <<
        "No existing MCP configuration found",
        "Consider setting up MCP server configuration",
        "Implement MCP client integration",
        "Set up MCP logging and monitoring" >>,
     issues_found |-> <<
        "Review and fix MCP configuration issues",
        "Address MCP connection issues identified in logs",
        "Improve MCP error handling and logging",
        "Consider implementing MCP health checks" >>,
     all_clear |-> <<
        "MCP configuration appears sound based on existing files",
        "Continue monitoring MCP performance",
        "Consider implementing advanced MCP strategies",
        "Add comprehensive MCP monitoring and alerting" >>]

\* the recommendation lists of ModelExpert.detect_hallucinations
ModelRecommendations ==
    [no_data |-> <<
        "No existing model configuration found",
        "Consider documenting model architecture and parameters",
        "Implement model versioning and tracking",
        "Set up model performance monitoring" >>,
     issues_found |-> <<
        "Review and fix model configuration issues",
        "Address model performance issues identified in outputs",
        "Improve model documentation and versioning",
        "Consider implementing model monitoring and alerting" >>,
     all_clear |-> <<
        "Model configuration appears sound based on existing files",
        "Continue monitoring model performance",
        "Consider implementing advanced model strategies",
        "Add comprehensive model evaluation metrics" >>]

\* HallucinationResult(hallucinations, confidence, recommendations)
HallucinationResult(h, c, r) ==
    [hallucinations |-> h, confidence |-> c, recommendations |-> r]

NoResult == HallucinationResult(<<>>, FZero, <<>>)

\* ------------------------------------------------------------ suggest_fixes
\* issue[key] raises KeyError for one of the keys
Lacks(issue, keys) == keys \ DOMAIN issue # {}

\* for item in items: the outcomes of the body for the items, one after the
\* other; an exception ends the loop
RECURSIVE ForEach(_)
ForEach(outcomes) ==
    IF outcomes = <<>> THEN Ok(<<>>)
    ELSE Then(Head(outcomes), ForEach(Tail(outcomes)))

\* a mapping that rejects a kind it has no template for
SecurityExpert_suggest_fixes_strict(issues) ==
    LET Fix(issue) ==
            IF Lacks(issue, {"type"}) THEN Fail(<<>>)
            ELSE IF issue.type = "security_vulnerability"
            THEN IF Lacks(issue, {"pattern"}) THEN Fail(<<>>)
                 ELSE Ok(<<
                     [issue |-> issue,
                      fix |-> "Replace hardcoded credential with environment variable",
                      example |-> <<"# Replace: ", issue.pattern,
                                  "\n# With: os.getenv('CREDENTIAL_KEY')">>,
                      priority |-> "high"]>>)
            ELSE IF issue.type = "subprocess_vulnerability"
            THEN Ok(<<
                     [issue |-> issue,
                      fix |-> "Replace subprocess call with native Python operation",
                      example |-> "# Replace subprocess.call with native Python libraries",
                      priority |-> "critical"]>>)
            ELSE Fail(<<>>)
    IN  ForEach([i \in DOMAIN issues |-> Fix(issues[i])])

\* SecurityExpert.suggest_fixes
SecurityExpert_suggest_fixes(issues) ==
    LET Fix(issue) ==
            IF Lacks(issue, {"type"}) THEN Fail(<<>>)
            ELSE IF issue.type = "security_vulnerability"
            THEN IF Lacks(issue, {"pattern"}) THEN Fail(<<>>)
                 ELSE Ok(<<
                     [issue |-> issue,
                      fix |-> "Replace hardcoded credential with environment variable",
                      example |-> <<"# Replace: ", issue.pattern,
                                  "\n# With: os.getenv('CREDENTIAL_KEY')">>,
                      priority |-> "high"]>>)
            ELSE IF issue.type = "subprocess_vulnerability"
            THEN Ok(<<
                     [issue |-> issue,
                      fix |-> "Replace subprocess call with native Python operation",
                      example |-> "# Replace subprocess.call with native Python libraries",
                      priority |-> "critical"]>>)
            ELSE Ok(<<>>)
    IN  ForEach([i \in DOMAIN issues |-> Fix(issues[i])])

\* ArchitectureExpert.suggest_fixes
ArchitectureExpert_suggest_fixes(issues) ==
    LET Fix(issue) ==
            IF Lacks(issue, {"type"}) THEN Fail(<<>>)
            ELSE IF issue.type = "documentation_issue"
            THEN IF Lacks(issue, {"description", "priority"}) THEN Fail(<<>>)
                 ELSE Ok(<<
                     [issue |-> issue,
                      fix |-> "Improve architecture documentation",
                      description |-> issue.description,
                      priority |-> issue.priority,
                      source |-> "existing_docs"]>>)
            ELSE IF issue.type = "structure_issue"
            THEN IF Lacks(issue, {"description", "priority"}) THEN Fail(<<>>)
                 ELSE Ok(<<
                     [issue |-> issue,
                      fix |-> "Improve code structure",
                      description |-> issue.description,
                      priority |-> issue.priority,
                      source |-> "existing_structure"]>>)
            ELSE IF issue.type = "dependency_issue"
            THEN IF Lacks(issue, {"description", "priority"}) THEN Fail(<<>>)
                 ELSE Ok(<<
                     [issue |-> issue,
                      fix |-> "Fix dependency management",
                      description |-> issue.description,
                      priority |-> issue.priority,
                      source |-> "existing_config"]>>)
            ELSE Ok(<<>>)
    IN  ForEach([i \in DOMAIN issues |-> Fix(issues[i])])

\* BuildExpert.suggest_fixes
BuildExpert_suggest_fixes(issues) ==
    LET Fix(issue) ==
            IF Lacks(issue, {"type"}) THEN Fail(<<>>)
            ELSE IF issue.type = "build_config_issue"
            THEN IF Lacks(issue, {"description", "priority"}) THEN Fail(<<>>)
                 ELSE Ok(<<
                     [issue |-> issue,
                      fix |-> "Fix build configuration",
                      description |-> issue.description,
                      priority |-> issue.priority,
                      source |-> "existing_config"]>>)
            ELSE IF issue.type = "build_failure"
            THEN IF Lacks(issue, {"priority"}) THEN Fail(<<>>)
                 ELSE Ok(<<
                     [issue |-> issue,
                      fix |-> "Fix build failures",
                      description |-> "Review and fix the build failures identified in logs",
                      priority |-> issue.priority,
                      source |-> "existing_logs"]>>)
            ELSE Ok(<<>>)
    IN  ForEach([i \in DOMAIN issues |-> Fix(issues[i])])

\* CodeQualityExpert.suggest_fixes
CodeQualityExpert_suggest_fixes(issues) ==
    LET Fix(issue) ==
            IF Lacks(issue, {"type"}) THEN Fail(<<>>)
            ELSE IF issue.type = "code_quality_issue"
            THEN IF Lacks(issue, {"code", "description"}) THEN Fail(<<>>)
                 ELSE Ok(<<
                     [issue |-> issue,
                      fix |-> "Fix code quality issue",
                      description |-> <<"Address ", issue.code, ": ",
                                      issue.description>>,
                      priority |-> "medium",
                      source |-> "existing_tool_output"]>>)
            ELSE IF issue.type = "formatting_config"
            THEN Ok(<<
                     [issue |-> issue,
                      fix |-> "Configure Black formatter",
                      description |-> "Set up Black formatting rules in pyproject.toml",
                      priority |-> "low",
                      source |-> "existing_config"]>>)
            ELSE IF issue.type = "type_checking_config"
            THEN Ok(<<
                     [issue |-> issue,
                      fix |-> "Configure MyPy type checker",
                      description |-> "Set up MyPy type checking rules",
                      priority |-> "low",
                      source |-> "existing_config"]>>)
            ELSE Ok(<<>>)
    IN  ForEach([i \in DOMAIN issues |-> Fix(issues[i])])

\* MCPExpert.suggest_fixes
MCPExpert_suggest_fixes(issues) ==
    LET Fix(issue) ==
            IF Lacks(issue, {"type"}) THEN Fail(<<>>)
            ELSE IF issue.type = "mcp_config_issue"
            THEN IF Lacks(issue, {"description", "priority"}) THEN Fail(<<>>)
                 ELSE Ok(<<
                     [issue |-> issue,
                      fix |-> "Fix MCP configuration",
                      description |-> issue.description,
                      priority |-> issue.priority,
                      source |-> "existing_config"]>>)
            ELSE IF issue.type = "mcp_failure"
            THEN IF Lacks(issue, {"priority"}) THEN Fail(<<>>)
                 ELSE Ok(<<
                     [issue |-> issue,
                      fix |-> "Fix MCP failures",
                      description |-> "Review and fix the MCP failures identified in logs",
                      priority |-> issue.priority,
                      source |-> "existing_logs"]>>)
            ELSE Ok(<<>>)
    IN  ForEach([i \in DOMAIN issues |-> Fix(issues[i])])

\* ModelExpert.suggest_fixes
ModelExpert_suggest_fixes(issues) ==
    LET Fix(issue) ==
            IF Lacks(issue, {"type"}) THEN Fail(<<>>)
            ELSE IF issue.type = "model_config_issue"
            THEN IF Lacks(issue, {"description", "priority"}) THEN Fail(<<>>)
                 ELSE Ok(<<
                     [issue |-> issue,
                      fix |-> "Fix model configuration",
                      description |-> issue.description,
                      priority |-> issue.priority,
                      source |-> "existing_config"]>>)
            ELSE IF issue.type = "model_failure"
            THEN IF Lacks(issue, {"priority"}) THEN Fail(<<>>)
                 ELSE Ok(<<
                     [issue |-> issue,
                      fix |-> "Fix model failures",
                      description |-> "Review and fix the model failures identified in logs",
                      priority |-> issue.priority,
                      source |-> "existing_logs"]>>)
            ELSE Ok(<<>>)
    IN  ForEach([i \in DOMAIN issues |-> Fix(issues[i])])

\* ------------------------------------------------------ the sample trees
\* The file trees that project_path may hold: for each expert the artifacts
\* it looks for, present or not, readable or not, with texts that pass and
\* texts that fail each of its checks.
SampleFiles ==
    LET \* lines of the sample Python files
        PyLines == {<<"pass">>, <<"API_KEY =", SecretKey>>, <<ShellLine>>}

        \* every tree that holds at each path of ps an unreadable file, a readable
        \* file with a text of lines of PyLines or nothing, with at most budget
        \* lines in all
        RECURSIVE AssignPy(_, _)
        AssignPy(ps, budget) ==
            LET Size(e) == IF e.kind = "file" THEN Len(e.text) ELSE 0
                texts == {x \in Lists(PyLines, MaxLines) : Len(x) <= budget}
            IN  IF ps = <<>> THEN {NoFiles}
                ELSE UNION {
                        {[f EXCEPT ![Head(ps)] = e] :
                            f \in AssignPy(Tail(ps), budget - Size(e))} :
                        e \in {Absent, Unreadable}
                              \cup {File(TRUE, text) : text \in texts}}

        \* trees for the Security expert: Python files, readable or not, in the
        \* project root and in src/
        SecurityTrees ==
            LET trees == AssignPy(<<"main.py", "tool.py", "src/app.py">>, MaxLines)
            IN  {[f EXCEPT !["src"] = Dir] :
                    f \in {g \in trees : g["src/app.py"].kind # "absent"}}
                \cup {g \in trees : g["src/app.py"].kind = "absent"}

        \* every tree that holds at each path of ps one of the entries opts[p], and
        \* nothing elsewhere
        RECURSIVE Assign(_, _)
        Assign(ps, opts) ==
            IF ps = <<>> THEN {NoFiles}
            ELSE {[f EXCEPT ![Head(ps)] = e] :
                    f \in Assign(Tail(ps), opts), e \in opts[Head(ps)]}

        \* the trees over ps that are file trees: every entry lies in an existing
        \* directory
        Trees(ps, opts) ==
            LET ParentsExist(f) ==
                    \A p \in PathNames :
                        (f[p].kind # "absent" /\ PathInfo(p).parent # "")
                            => f[PathInfo(p).parent].kind = "dir"
            IN  {f \in Assign(ps, opts) : ParentsExist(f)}

        \* a file that may be missing or unreadable, or hold one of the texts
        AnyFile(texts) == {Absent, Unreadable} \cup {File(TRUE, x) : x \in texts}

        \* an empty text and the texts of one line of one word
        OneLiners(words) == {<<>>} \cup {<<<<w>>>> : w \in words}

        LogTexts == OneLiners({"all steps ok", "ERROR: step 3", "Link FAILED"})

        \* trees for the Architecture expert: documentation; code structure, also
        \* with eleven Python files in the project root; dependency declarations
        ArchitectureTrees ==
            LET docs ==
                    Trees(<<"README.md", "docs", "docs/guide.md",
                            "docs/architecture.md">>,
                          [p \in PathNames |->
                            CASE p = "README.md" ->
                                    AnyFile(OneLiners({"# Tool", "## Architecture",
                                                       "Design notes"}))
                              [] p = "docs" -> {Absent, Dir}
                              [] OTHER -> {Absent, File(TRUE, <<>>)}])
                code ==
                    Trees(<<"README.md", "src", "src/__init__.py", "src/app.py",
                            "src/pkg", "src/pkg/mod.py">>,
                          [p \in PathNames |->
                            CASE p = "README.md" ->
                                    {Absent, File(TRUE, <<<<"## Architecture">>>>)}
                              [] p \in {"src", "src/pkg"} -> {Absent, Dir}
                              [] OTHER -> {Absent, File(TRUE, <<>>)}])
                flat == {"main.py", "tool.py", "b1.py", "b2.py", "b3.py", "b4.py",
                         "b5.py", "b6.py", "b7.py", "b8.py", "b9.py"}
                WithFlatFiles(f) ==
                    [p \in PathNames |->
                        IF p \in flat THEN File(TRUE, <<>>) ELSE f[p]]
                dependencies ==
                    Trees(<<"pyproject.toml", "requirements.txt">>,
                          [p \in PathNames |->
                            CASE p = "pyproject.toml" ->
                                    AnyFile(OneLiners({"dependencies = ['x>=1']",
                                                       "dependencies = ['x==1']"}))
                              [] OTHER -> AnyFile(OneLiners({"x>=1", "x==1"}))])
            IN  docs \cup code \cup {WithFlatFiles(f) : f \in code}
                \cup dependencies

        BuildTrees ==
            Trees(<<"pyproject.toml", "build", "build.log">>,
                  [p \in PathNames |->
                    CASE p = "pyproject.toml" ->
                            AnyFile(OneLiners({"[build-system]", "[project]"}))
                      [] p = "build" -> {Absent, Dir}
                      [] OTHER -> AnyFile(LogTexts)])

        MCPTrees ==
            Trees(<<"mcp_config.json", "logs", "mcp.log">>,
                  [p \in PathNames |->
                    CASE p = "mcp_config.json" ->
                            AnyFile(OneLiners({"{\"MCP\": {}}",
                                               "{\"mcp\": {\"server\": \"x\"}}",
                                               "{}"}))
                      [] p = "logs" -> {Absent, Dir}
                      [] OTHER -> AnyFile(LogTexts)])

        ModelTrees ==
            Trees(<<"model_config.json", "models", "model.log">>,
                  [p \in PathNames |->
                    CASE p = "model_config.json" ->
                            AnyFile(OneLiners({"{\"Model\": \"m\"}",
                                               "{\"model\": \"m\", \"version\": 1}",
                                               "{}"}))
                      [] p = "models" -> {Absent, Dir}
                      [] OTHER -> AnyFile(LogTexts)])

        \* trees for the CodeQuality expert: tool configuration and CI workflows;
        \* flake8 reports
        CodeQualityTrees ==
            LET configs ==
                    Trees(<<"pyproject.toml", ".github", ".github/workflows",
                            ".github/workflows/ci.yml">>,
                          [p \in PathNames |->
                            CASE p = "pyproject.toml" ->
                                    AnyFile(OneLiners({
                                        "[tool.black] line-length = 88",
                                        "[tool.mypy] warn_return_any = true",
                                        "[project]"}))
                              [] p \in {".github", ".github/workflows"} ->
                                    {Absent, Dir}
                              [] OTHER -> AnyFile(OneLiners({"run: pytest",
                                                             "run: flake8 ."}))])
                reports ==
                    Trees(<<".flake8", "flake8_report.json", "flake8_report.txt",
                            "logs">>,
                          [p \in PathNames |->
                            CASE p = ".flake8" ->
                                    AnyFile({<<>>, <<<<Flake8TextLines.section>>>>,
                                             <<<<Flake8TextLines.section>>,
                                               <<Flake8TextLines.setting>>>>,
                                             <<<<Flake8TextLines.issue>>>>})
                              [] p = "flake8_report.json" ->
                                    AnyFile(OneLiners({
                                        Flake8JsonReports.empty_list,
                                        Flake8JsonReports.one_issue,
                                        Flake8JsonReports.issue_then_number,
                                        Flake8JsonReports.broken}))
                              [] p = "flake8_report.txt" ->
                                    {Absent,
                                     File(TRUE, <<<<Flake8TextLines.issue>>>>),
                                     File(TRUE, <<<<Flake8TextLines.odd_line>>,
                                                  <<Flake8TextLines.no_code>>>>)}
                              [] OTHER -> {Absent, Dir}])
            IN  configs \cup reports
    IN  SecurityTrees \cup ArchitectureTrees \cup BuildTrees \cup MCPTrees
        \cup ModelTrees \cup CodeQualityTrees

\* ------------------------------------------------- detect_hallucinations
\* the state of the experts while the scorers are exercised
DetectIdle ==
    /\ tree = [root |-> FALSE, files |-> NoFiles]
    /\ expert = "none"
    /\ pc = "idle"
    /\ hallucinations = <<>>
    /\ scan_files = <<>>
    /\ scan_idx = 0
    /\ result = NoResult
    /\ returned = 0
    /\ raised = FALSE
    /\ suspended = <<>>

\* the state of the detector and of suggest_fixes while they are not called
ApplyIdle ==
    /\ file_text = <<>>
    /\ detected = <<>>
    /\ fix_issues = <<>>
    /\ fix_expert = "none"
    /\ fixes = Ok(<<>>)
    /\ validation = None
    /\ recovery = None

\* the state of the scorers while the experts run
ScoreIdle ==
    /\ findings = <<>>
    /\ other = <<>>
    /\ confidence = Lit_0_0
    /\ other_confidence = Lit_0_0
    /\ risk_score = Lit_0_0
    /\ called = {}

\* project_path is a directory holding a sample tree, or does not exist
Init ==
    /\ ScoreIdle
    /\ ApplyIdle
    /\ suspended = <<>>
    /\ \/ tree = [root |-> FALSE, files |-> NoFiles]
       \/ \E f \in SampleFiles : tree = [root |-> TRUE, files |-> f]
    /\ expert = "none"
    /\ pc = "idle"
    /\ hallucinations = <<>>
    /\ scan_files = <<>>
    /\ scan_idx = 0
    /\ result = NoResult
    /\ returned = 0
    /\ raised = FALSE

\* a caller awaits detect_hallucinations of expert e: hallucinations = []
Enter(e, first, files) ==
    /\ expert' = e
    /\ pc' = first
    /\ hallucinations' = <<>>
    /\ scan_files' = files
    /\ scan_idx' = 1
    /\ result' = NoResult
    /\ returned' = 0
    /\ raised' = FALSE
    /\ UNCHANGED <<tree, outer_vars>>

\* return r
Return(r) ==
    /\ result' = r
    /\ returned' = returned + 1
    /\ pc' = "done"
    /\ UNCHANGED <<tree, expert, hallucinations, scan_files, scan_idx, raised,
                   outer_vars>>

\* an exception leaves detect_hallucinations
Raise ==
    /\ raised' = TRUE
    /\ pc' = "raised"
    /\ UNCHANGED <<tree, expert, hallucinations, scan_files, scan_idx, result,
                   returned, outer_vars>>

\* data = await self._find_existing_..._data(project_path); without data
\* the expert returns its no-data Result
FindData(data, no_data, next) ==
    /\ IF data = <<>> THEN Return(no_data)
       ELSE /\ pc' = next
            /\ UNCHANGED <<tree, expert, hallucinations, scan_files, scan_idx,
                           result, returned, raised, outer_vars>>

\* issues = await self._analyze_...(project_path);
\* hallucinations.extend(issues)
Analyze(outcome, next) ==
    /\ IF outcome.error THEN Raise
       ELSE /\ hallucinations' = hallucinations \o outcome.found
            /\ pc' = next
            /\ UNCHANGED <<tree, expert, scan_files, scan_idx, result, returned,
                           raised, outer_vars>>

\* a scan path that gives empty findings the confidence of the no-data branch
Finish_empty_as_no_data(recommendations) ==
    /\ Return(HallucinationResult(
                hallucinations,
                IF hallucinations = <<>> THEN Lit_0_3
                ELSE calculate_confidence(hallucinations),
                IF hallucinations # <<>> THEN recommendations.issues_found
                ELSE recommendations.all_clear))

\* a choice of the list by the severity of the findings
Finish_when_severe(recommendations) ==
    /\ Return(HallucinationResult(
                hallucinations,
                calculate_confidence(hallucinations),
                IF CountPriority(hallucinations, "high")
                    + CountPriority(hallucinations, "critical") > 0
                THEN recommendations.issues_found
                ELSE recommendations.all_clear))

\* the recommendations are chosen, the confidence is computed and the
\* Result is returned
Finish(recommendations) ==
    /\ Return(HallucinationResult(
                hallucinations,
                calculate_confidence(hallucinations),
                IF hallucinations # <<>> THEN recommendations.issues_found
                ELSE recommendations.all_clear))

\* SecurityExpert.detect_hallucinations is called; its loop runs over
\* project_path.rglob("*.py")
SecurityCall ==
    /\ pc \in {"idle", "done"}
    /\ Enter("SecurityExpert", "scan", RGlob(tree, "", "*.py"))

\* one iteration of the loop that ends the scan at the first file that
\* cannot be read
SecurityScanFile_abort ==
    /\ pc = "scan" /\ expert = "SecurityExpert"
    /\ scan_idx <= Len(scan_files)
    /\ LET outcome == ScanPyFile(tree, scan_files[scan_idx])
       IN  /\ hallucinations' = hallucinations \o outcome.found
           /\ scan_idx' = IF outcome.error THEN Len(scan_files) + 1
                          ELSE scan_idx + 1
           /\ UNCHANGED <<tree, expert, pc, scan_files, result, returned,
                          raised, outer_vars>>

\* one iteration of the loop: try the file, except Exception, continue
SecurityScanFile ==
    /\ pc = "scan" /\ expert = "SecurityExpert"
    /\ scan_idx <= Len(scan_files)
    /\ LET outcome == Caught(ScanPyFile(tree, scan_files[scan_idx]))
       IN  IF outcome.error THEN Raise
           ELSE /\ hallucinations' = hallucinations \o outcome.found
                /\ scan_idx' = scan_idx + 1
                /\ UNCHANGED <<tree, expert, pc, scan_files, result, returned,
                               raised, outer_vars>>

\* the loop is over: recommendations, confidence, Result
SecurityReturn ==
    /\ pc = "scan" /\ expert = "SecurityExpert"
    /\ scan_idx > Len(scan_files)
    /\ Finish(SecurityRecommendations)

ArchitectureCall ==
    /\ pc \in {"idle", "done"}
    /\ Enter("ArchitectureExpert", "find", <<>>)

ArchitectureFindData ==
    /\ pc = "find" /\ expert = "ArchitectureExpert"
    /\ FindData(_find_existing_architecture_data(tree),
                HallucinationResult(<<>>, Lit_0_3,
                                    ArchitectureRecommendations.no_data),
                "docs")

ArchitectureAnalyzeDocs ==
    /\ pc = "docs" /\ expert = "ArchitectureExpert"
    /\ Analyze(_analyze_architecture_docs(tree), "structure")

ArchitectureAnalyzeStructure ==
    /\ pc = "structure" /\ expert = "ArchitectureExpert"
    /\ Analyze(_analyze_code_structure(tree), "dependencies")

ArchitectureAnalyzeDependencies ==
    /\ pc = "dependencies" /\ expert = "ArchitectureExpert"
    /\ Analyze(_analyze_dependencies(tree), "finish")

ArchitectureReturn ==
    /\ pc = "finish" /\ expert = "ArchitectureExpert"
    /\ Finish(ArchitectureRecommendations)

BuildCall ==
    /\ pc \in {"idle", "done"}
    /\ Enter("BuildExpert", "find", <<>>)

BuildFindData ==
    /\ pc = "find" /\ expert = "BuildExpert"
    /\ FindData(_find_existing_build_data(tree),
                HallucinationResult(<<>>, Lit_0_3,
                                    BuildRecommendations.no_data),
                "config")

BuildAnalyzeConfig ==
    /\ pc = "config" /\ expert = "BuildExpert"
    /\ Analyze(_analyze_build_config(tree), "logs")

BuildAnalyzeLogs ==
    /\ pc = "logs" /\ expert = "BuildExpert"
    /\ Analyze(_analyze_build_logs(tree), "finish")

BuildReturn ==
    /\ pc = "finish" /\ expert = "BuildExpert"
    /\ Finish(BuildRecommendations)

CodeQualityCall ==
    /\ pc \in {"idle", "done"}
    /\ Enter("CodeQualityExpert", "find", <<>>)

CodeQualityFindData ==
    /\ pc = "find" /\ expert = "CodeQualityExpert"
    /\ FindData(_find_existing_tool_outputs(tree),
                HallucinationResult(<<>>, Lit_0_5,
                                    CodeQualityRecommendations.no_data),
                "flake8")

CodeQualityAnalyzeFlake8 ==
    /\ pc = "flake8" /\ expert = "CodeQualityExpert"
    /\ Analyze(_analyze_existing_flake8_outputs(tree), "black")

CodeQualityAnalyzeBlack ==
    /\ pc = "black" /\ expert = "CodeQualityExpert"
    /\ Analyze(_analyze_existing_black_outputs(tree), "mypy")

CodeQualityAnalyzeMypy ==
    /\ pc = "mypy" /\ expert = "CodeQualityExpert"
    /\ Analyze(_analyze_existing_mypy_outputs(tree), "ci")

CodeQualityAnalyzeCi ==
    /\ pc = "ci" /\ expert = "CodeQualityExpert"
    /\ Analyze(_analyze_existing_ci_logs(tree), "finish")

CodeQualityReturn ==
    /\ pc = "finish" /\ expert = "CodeQualityExpert"
    /\ Finish(CodeQualityRecommendations)

MCPCall ==
    /\ pc \in {"idle", "done"}
    /\ Enter("MCPExpert", "find", <<>>)

MCPFindData ==
    /\ pc = "find" /\ expert = "MCPExpert"
    /\ FindData(_find_existing_mcp_data(tree),
                HallucinationResult(<<>>, Lit_0_3,
                                    MCPRecommendations.no_data),
                "config")

MCPAnalyzeConfig ==
    /\ pc = "config" /\ expert = "MCPExpert"
    /\ Analyze(_analyze_mcp_config(tree), "logs")

MCPAnalyzeLogs ==
    /\ pc = "logs" /\ expert = "MCPExpert"
    /\ Analyze(_analyze_mcp_logs(tree), "finish")

MCPReturn ==
    /\ pc = "finish" /\ expert = "MCPExpert"
    /\ Finish(MCPRecommendations)

ModelCall ==
    /\ pc \in {"idle", "done"}
    /\ Enter("ModelExpert", "find", <<>>)

ModelFindData ==
    /\ pc = "find" /\ expert = "ModelExpert"
    /\ FindData(_find_existing_model_data(tree),
                HallucinationResult(<<>>, Lit_0_3,
                                    ModelRecommendations.no_data),
                "config")

ModelAnalyzeConfig ==
    /\ pc = "config" /\ expert = "ModelExpert"
    /\ Analyze(_analyze_model_config(tree), "outputs")

ModelAnalyzeOutputs ==
    /\ pc = "outputs" /\ expert = "ModelExpert"
    /\ Analyze(_analyze_model_outputs(tree), "finish")

ModelReturn ==
    /\ pc = "finish" /\ expert = "ModelExpert"
    /\ Finish(ModelRecommendations)

\* a caller invokes an expert
Call ==
    \/ SecurityCall
    \/ ArchitectureCall
    \/ BuildCall
    \/ CodeQualityCall
    \/ MCPCall
    \/ ModelCall

\* the invocation under way takes its next step
Step ==
    \/ SecurityScanFile
    \/ SecurityReturn
    \/ ArchitectureFindData
    \/ ArchitectureAnalyzeDocs
    \/ ArchitectureAnalyzeStructure
    \/ ArchitectureAnalyzeDependencies
    \/ ArchitectureReturn
    \/ BuildFindData
    \/ BuildAnalyzeConfig
    \/ BuildAnalyzeLogs
    \/ BuildReturn
    \/ CodeQualityFindData
    \/ CodeQualityAnalyzeFlake8
    \/ CodeQualityAnalyzeBlack
    \/ CodeQualityAnalyzeMypy
    \/ CodeQualityAnalyzeCi
    \/ CodeQualityReturn
    \/ MCPFindData
    \/ MCPAnalyzeConfig
    \/ MCPAnalyzeLogs
    \/ MCPReturn
    \/ ModelFindData
    \/ ModelAnalyzeConfig
    \/ ModelAnalyzeOutputs
    \/ ModelReturn

Next == Call \/ Step

Spec == Init /\ [][Next]_vars

\* an awaited coroutine runs until it returns
FairSpec == Spec /\ WF_vars(Step)

\* ------------------------------------------------------------- the scorers
\* sample findings: every priority of the schema in one file, and a high
\* finding in another file
ShortSamples ==
    {[priority |-> p, file |-> "a.py"] :
        p \in {"low", "medium", "high", "critical"}}
    \cup {[priority |-> "high", file |-> "b.py"]}

\* sample findings for the long lists: the priorities that change a score, a
\* priority outside the schema and a finding without a priority
LongSamples ==
    {[priority |-> p, file |-> "a.py"] :
        p \in {"medium", "high", "critical", "info"}}
    \cup {[file |-> "a.py"]}

ScoreInit ==
    /\ \/ /\ findings \in Lists(ShortSamples, MaxShort)
          /\ other \in Lists(ShortSamples, MaxShort)
       \/ /\ findings \in Lists(LongSamples, MaxFindings)
          /\ other = <<>>
    /\ confidence = Lit_0_0
    /\ other_confidence = Lit_0_0
    /\ risk_score = Lit_0_0
    /\ called = {}
    /\ DetectIdle
    /\ ApplyIdle

\* a caller applies calculate_confidence to each of its lists
CallCalculateConfidence ==
    /\ "calculate_confidence" \notin called
    /\ confidence' = calculate_confidence(findings)
    /\ other_confidence' = calculate_confidence(other)
    /\ called' = called \cup {"calculate_confidence"}
    /\ UNCHANGED <<findings, other, risk_score, detect_vars, apply_vars>>

\* a caller applies calculate_risk_score to its list
CallCalculateRiskScore ==
    /\ "calculate_risk_score" \notin called
    /\ risk_score' = calculate_risk_score(findings)
    /\ called' = called \cup {"calculate_risk_score"}
    /\ UNCHANGED <<findings, other, confidence, other_confidence, detect_vars,
                   apply_vars>>

ScoreSpec ==
    ScoreInit /\ [][CallCalculateConfidence \/ CallCalculateRiskScore]_vars

\* ------------------------------------------ the detector and suggest_fixes
\* sample texts of a Python file: lines that match nothing, then lines with
\* a secret key, with process-spawn constructs, with a key or a construct
\* broken in two, and with nothing of interest
SampleTexts ==
    LET lines == {<<"pass">>,
                  <<"API_KEY =", SecretKey>>,
                  <<"AKIA0123456789ABCDEF">>,
                  <<"sk-abcdefghijklmnopqrstuvwx">>,
                  <<"yzABCDEFGHIJKLMNOPQRSTUV">>,
                  <<ShellLine>>,
                  <<"os.popen(cmd)">>,
                  <<"import">>,
                  <<"subprocess">>,
                  <<"import", "subprocess">>}
    IN  {[i \in 1..k |-> <<"pass">>] \o body :
            k \in 0..MaxPad, body \in Lists(lines, MaxBody)}

\* sample findings for suggest_fixes of expert e: of each kind that e
\* emits and of a kind that no expert has a fix for, with every priority of
\* the schema; and findings that lack one of the keys
SampleIssues(e) ==
    LET Finding(type, priority) ==
            [type |-> type, file |-> "main.py", pattern |-> "os\\.system",
             code |-> "E501", description |-> "line too long",
             priority |-> priority]
        Drop(f, key) == [k \in DOMAIN f \ {key} |-> f[k]]
        kinds ==
            CASE e = "SecurityExpert" ->
                    {"security_vulnerability", "subprocess_vulnerability"}
              [] e = "ArchitectureExpert" ->
                    {"documentation_issue", "structure_issue",
                     "dependency_issue"}
              [] e = "BuildExpert" -> {"build_config_issue", "build_failure"}
              [] e = "CodeQualityExpert" ->
                    {"code_quality_issue", "formatting_config",
                     "type_checking_config"}
              [] e = "MCPExpert" -> {"mcp_config_issue", "mcp_failure"}
              [] e = "ModelExpert" -> {"model_config_issue", "model_failure"}
    IN  {Finding(k, p) : k \in kinds \cup {"ci_quality_integration"},
                         p \in {"low", "medium", "high", "critical"}}
        \cup {Drop(Finding(k, "medium"), key) :
                k \in kinds,
                key \in {"type", "pattern", "code", "description", "priority"}}

\* a caller holds the text of a Python file, or a findings list and an
\* expert
ApplyInit ==
    /\ \/ /\ file_text \in SampleTexts
          /\ fix_expert = "none"
          /\ fix_issues = <<>>
       \/ /\ file_text = <<>>
          /\ fix_expert \in {"SecurityExpert", "ArchitectureExpert",
                              "BuildExpert", "CodeQualityExpert", "MCPExpert",
                              "ModelExpert"}
          /\ fix_issues \in Lists(SampleIssues(fix_expert), MaxIssues)
    /\ detected = <<>>
    /\ fixes = Ok(<<>>)
    /\ validation = None
    /\ recovery = None
    /\ ScoreIdle
    /\ DetectIdle

\* the body of the Security scan loop runs on main.py, which holds the text
DetectorScan ==
    /\ fix_expert = "none"
    /\ "scan" \notin called
    /\ detected' = ScanPyFile([root |-> TRUE,
                               files |-> [NoFiles EXCEPT !["main.py"] =
                                            File(TRUE, file_text)]],
                              "main.py").found
    /\ called' = called \cup {"scan"}
    /\ UNCHANGED <<findings, other, confidence, other_confidence, risk_score,
                   file_text, fix_issues, fix_expert, fixes, validation,
                   recovery, detect_vars>>

\* a caller awaits suggest_fixes of its expert on its list
CallSuggestFixes ==
    /\ fix_expert # "none"
    /\ "suggest_fixes" \notin called
    /\ fixes' =
            CASE fix_expert = "SecurityExpert" ->
                    SecurityExpert_suggest_fixes(fix_issues)
              [] fix_expert = "ArchitectureExpert" ->
                    ArchitectureExpert_suggest_fixes(fix_issues)
              [] fix_expert = "BuildExpert" ->
                    BuildExpert_suggest_fixes(fix_issues)
              [] fix_expert = "CodeQualityExpert" ->
                    CodeQualityExpert_suggest_fixes(fix_issues)
              [] fix_expert = "MCPExpert" ->
                    MCPExpert_suggest_fixes(fix_issues)
              [] fix_expert = "ModelExpert" ->
                    ModelExpert_suggest_fixes(fix_issues)
    /\ called' = called \cup {"suggest_fixes"}
    /\ UNCHANGED <<findings, other, confidence, other_confidence, risk_score,
                   file_text, detected, fix_issues, fix_expert, validation,
                   recovery, detect_vars>>

ApplySpec == ApplyInit /\ [][DetectorScan \/ CallSuggestFixes]_vars

\* ------------------------------------------- invocations that interleave
\* Several callers invoke experts on the same project_path; a worker runs
\* one invocation at a time and may leave it at any of its steps for
\* another one. An invocation owns its locals and what it returns; the
\* experts hold a logger and a name, and no invocation writes the tree.
ParInit ==
    /\ ScoreIdle
    /\ ApplyIdle
    /\ \/ tree = [root |-> FALSE, files |-> NoFiles]
       \/ \E f \in SampleFiles : tree = [root |-> TRUE, files |-> f]
    /\ expert = "none"
    /\ pc = "idle"
    /\ hallucinations = <<>>
    /\ scan_files = <<>>
    /\ scan_idx = 0
    /\ result = NoResult
    /\ returned = 0
    /\ raised = FALSE
    /\ suspended = [i \in 1..MaxSuspended |->
                        [expert |-> "none", pc |-> "idle",
                         hallucinations |-> <<>>, scan_files |-> <<>>,
                         scan_idx |-> 0, result |-> NoResult, returned |-> 0,
                         raised |-> FALSE]]

\* experts that keep the findings list in a field that the invocations share
Switch_sharing_findings ==
    \E i \in DOMAIN suspended :
        /\ suspended' = [suspended EXCEPT ![i] =
                            [expert |-> expert, pc |-> pc,
                             hallucinations |-> hallucinations,
                             scan_files |-> scan_files, scan_idx |-> scan_idx,
                             result |-> result, returned |-> returned,
                             raised |-> raised]]
        /\ expert' = suspended[i].expert
        /\ pc' = suspended[i].pc
        /\ scan_files' = suspended[i].scan_files
        /\ scan_idx' = suspended[i].scan_idx
        /\ result' = suspended[i].result
        /\ returned' = suspended[i].returned
        /\ raised' = suspended[i].raised
        /\ UNCHANGED <<tree, hallucinations, score_vars, apply_vars>>

\* the worker leaves the invocation it runs and takes up the i-th of those
\* that wait
Switch ==
    \E i \in DOMAIN suspended :
        /\ suspended' = [suspended EXCEPT ![i] =
                            [expert |-> expert, pc |-> pc,
                             hallucinations |-> hallucinations,
                             scan_files |-> scan_files, scan_idx |-> scan_idx,
                             result |-> result, returned |-> returned,
                             raised |-> raised]]
        /\ expert' = suspended[i].expert
        /\ pc' = suspended[i].pc
        /\ hallucinations' = suspended[i].hallucinations
        /\ scan_files' = suspended[i].scan_files
        /\ scan_idx' = suspended[i].scan_idx
        /\ result' = suspended[i].result
        /\ returned' = suspended[i].returned
        /\ raised' = suspended[i].raised
        /\ UNCHANGED <<tree, score_vars, apply_vars>>

ParSpec == ParInit /\ [][Call \/ Step \/ Switch]_vars

\* ------------------------------------------ an invocation that is cancelled
\* The caller cancels the invocation, or its timeout expires, while
\* detect_hallucinations runs: CancelledError is thrown into the coroutine.
\* It is not an Exception, so the except Exception clauses of the experts
\* let it pass, and it leaves detect_hallucinations.
Cancel ==
    /\ pc \notin {"idle", "done", "raised"}
    /\ Raise

CancelSpec == Init /\ [][Call \/ Step \/ Cancel]_vars

\* ------------------------------------- a caller that uses what it received
\* The caller of detect_hallucinations takes the findings of the Result and
\* hands them to the other operations of the same expert; the invocation
\* that returned the Result is over.
Handover ==
    /\ pc = "done"
    /\ fix_expert = "none"
    /\ pc' = "taken"
    /\ findings' = result.hallucinations
    /\ fix_issues' = result.hallucinations
    /\ fix_expert' = expert
    /\ UNCHANGED <<other, confidence, other_confidence, risk_score, called,
                   file_text, detected, fixes, validation, recovery, tree,
                   expert, hallucinations, scan_files, scan_idx, result,
                   returned, raised, suspended>>

\* an execute_recovery that removes the files that the issues name
CallExecuteRecovery_removing_files ==
    /\ "execute_recovery" \notin called
    /\ recovery' = [recovery_attempted |-> TRUE,
                    issues_processed |-> Len(findings),
                    success_count |-> Len(findings)]
    /\ tree' = [tree EXCEPT !.files =
                    [p \in DOMAIN tree.files |->
                        IF \E i \in DOMAIN findings : findings[i].file = p
                        THEN Absent ELSE tree.files[p]]]
    /\ called' = called \cup {"execute_recovery"}
    /\ UNCHANGED <<findings, other, confidence, other_confidence, risk_score,
                   file_text, detected, fix_issues, fix_expert, fixes,
                   validation, expert, pc, hallucinations, scan_files,
                   scan_idx, result, returned, raised, suspended>>

\* BaseExpert.validate_findings
CallValidateFindings ==
    /\ "validate_findings" \notin called
    /\ validation' = [validated |-> TRUE, confidence |-> Lit_0_8,
                      findings_count |-> Len(findings)]
    /\ called' = called \cup {"validate_findings"}
    /\ UNCHANGED <<findings, other, confidence, other_confidence, risk_score,
                   file_text, detected, fix_issues, fix_expert, fixes,
                   recovery, detect_vars>>

\* BaseExpert.execute_recovery
CallExecuteRecovery ==
    /\ "execute_recovery" \notin called
    /\ recovery' = [recovery_attempted |-> TRUE,
                    issues_processed |-> Len(findings),
                    success_count |-> 0]
    /\ called' = called \cup {"execute_recovery"}
    /\ UNCHANGED <<findings, other, confidence, other_confidence, risk_score,
                   file_text, detected, fix_issues, fix_expert, fixes,
                   validation, detect_vars>>

\* the caller that holds the findings of a Result applies an operation of
\* the expert to them
UseCalculateConfidence ==
    /\ fix_expert # "none"
    /\ "calculate_confidence" \notin called
    /\ confidence' = calculate_confidence(findings)
    /\ called' = called \cup {"calculate_confidence"}
    /\ UNCHANGED <<findings, other, other_confidence, risk_score, detect_vars,
                   apply_vars>>

\* only the Security expert has calculate_risk_score
UseCalculateRiskScore ==
    fix_expert = "SecurityExpert" /\ CallCalculateRiskScore

UseSuggestFixes == fix_expert # "none" /\ CallSuggestFixes

UseValidateFindings == fix_expert # "none" /\ CallValidateFindings

UseExecuteRecovery == fix_expert # "none" /\ CallExecuteRecovery

\* an expert is invoked on the project; once the caller has taken the
\* findings of the Result, it applies the other operations to them, each
\* once, in any order
UseSpec ==
    Init /\ [][\/ Call
               \/ Step
               \/ Handover
               \/ UseCalculateConfidence
               \/ UseCalculateRiskScore
               \/ UseSuggestFixes
               \/ UseValidateFindings
               \/ UseExecuteRecovery]_vars

\* ------------------------------------------------ claims about the scorers
ConfidenceCalled == "calculate_confidence" \in called
RiskCalled == "calculate_risk_score" \in called

\* the decimal value the specification gives for a findings list, in tenths:
\* 9 for the empty list, otherwise 8 - high - 2 * critical kept within 0..10
SpecTenths(fs) ==
    IF fs = <<>> THEN 9
    ELSE Max2(0, Min2(10, 8 - CountPriority(fs, "high")
                            - 2 * CountPriority(fs, "critical")))

\* C1: calculate_confidence returns 0.9 for the empty list and otherwise
\* 0.8 - 0.1 per high finding - 0.2 per critical finding clamped to [0, 1],
\* so that one high finding gives 0.7 and one critical finding gives 0.6
C1_ConfidenceIsDecimalValue ==
    ConfidenceCalled => confidence = Dec(SpecTenths(findings), 10)

\* C2 as claimed: appending a low or medium finding to any list, the empty
\* list included, leaves the confidence unchanged
C2_LowMediumNeverChangeConfidence ==
    (/\ ConfidenceCalled
     /\ \E f \in ShortSamples :
            /\ f.priority \in {"low", "medium"}
            /\ other = Append(findings, f))
    => other_confidence = confidence

\* C2 as amended: appending a low or medium finding to a non-empty list
\* leaves the confidence unchanged
C2_LowMediumKeepConfidenceOfNonEmpty ==
    (/\ ConfidenceCalled
     /\ findings # <<>>
     /\ \E f \in ShortSamples :
            /\ f.priority \in {"low", "medium"}
            /\ other = Append(findings, f))
    => other_confidence = confidence

C2_Witness ==
    /\ ConfidenceCalled
    /\ findings = <<[priority |-> "high", file |-> "a.py"]>>
    /\ other = Append(findings, [priority |-> "medium", file |-> "a.py"])
    /\ other_confidence = confidence
    /\ confidence # Lit_0_8

\* B has at least as many high and as many critical findings as A
AtLeastAsSevere(B, A) ==
    /\ CountPriority(B, "high") >= CountPriority(A, "high")
    /\ CountPriority(B, "critical") >= CountPriority(A, "critical")

SameSeverity(B, A) == AtLeastAsSevere(B, A) /\ AtLeastAsSevere(A, B)

\* C3 as claimed: whenever other has at least as many high and critical
\* findings as findings, its confidence is not larger; non-empty lists with
\* equal counts get equal confidence
C3_MonotoneForAllLists ==
    ConfidenceCalled =>
        /\ AtLeastAsSevere(other, findings)
            => FLe(other_confidence, confidence)
        /\ (findings # <<>> /\ other # <<>> /\ SameSeverity(other, findings))
            => other_confidence = confidence

\* C3 as amended: the same, except that the pair of a non-empty first list
\* and an empty second list is left out
C3_MonotoneUnlessEmptied ==
    ConfidenceCalled =>
        /\ (AtLeastAsSevere(other, findings)
            /\ (other # <<>> \/ findings = <<>>))
            => FLe(other_confidence, confidence)
        /\ (findings # <<>> /\ other # <<>> /\ SameSeverity(other, findings))
            => other_confidence = confidence

C3_Witness ==
    /\ ConfidenceCalled
    /\ findings = <<[priority |-> "high", file |-> "b.py"],
                    [priority |-> "low", file |-> "a.py"]>>
    /\ other = <<[priority |-> "critical", file |-> "a.py"],
                 [priority |-> "high", file |-> "a.py"]>>
    /\ FLt(other_confidence, confidence)

\* the weight of the specification, as an integer
SpecWeight(issue) ==
    IF "priority" \notin DOMAIN issue THEN 1
    ELSE CASE issue.priority = "critical" -> 10
           [] issue.priority = "high" -> 5
           [] issue.priority = "medium" -> 2
           [] OTHER -> 1

RECURSIVE SpecWeightSum(_)
SpecWeightSum(issues) ==
    IF issues = <<>> THEN 0
    ELSE SpecWeight(Head(issues)) + SpecWeightSum(Tail(issues))

\* C5: calculate_risk_score returns 0.0 for the empty list and otherwise the
\* sum of the weights (critical 10, high 5, medium 2, anything else 1)
\* capped at 10.0; the result lies in [0, 10]
C5_RiskScoreIsCappedWeightSum ==
    RiskCalled =>
        /\ risk_score = IntToFloat(Min2(10, SpecWeightSum(findings)))
        /\ FLe(Lit_0_0, risk_score) /\ FLe(risk_score, Lit_10_0)

C5_Witness ==
    /\ RiskCalled
    /\ findings = <<[priority |-> "critical", file |-> "a.py"],
                    [priority |-> "high", file |-> "a.py"]>>
    /\ risk_score = Lit_10_0

\* ------------------------------------------------ claims about the experts
AnalysingExperts ==
    {"ArchitectureExpert", "BuildExpert", "CodeQualityExpert", "MCPExpert",
     "ModelExpert"}

Done == pc = "done"

\* what expert e finds of its artifacts in tree t
FoundData(e, t) ==
    CASE e = "ArchitectureExpert" -> _find_existing_architecture_data(t)
      [] e = "BuildExpert" -> _find_existing_build_data(t)
      [] e = "CodeQualityExpert" -> _find_existing_tool_outputs(t)
      [] e = "MCPExpert" -> _find_existing_mcp_data(t)
      [] e = "ModelExpert" -> _find_existing_model_data(t)

IsFloat(x) == DOMAIN x = {"sign", "mant", "exp"}

CannotBeRead(t, p) == t.files[p].kind = "file" /\ ~t.files[p].readable

\* C4: every Result that detect_hallucinations of any expert returns, on
\* the no-data path and the empty-findings path too, carries a confidence
\* that is a float between 0.0 and 1.0.
C4_ConfidenceOfEveryResultInUnitInterval ==
    returned > 0 =>
        /\ IsFloat(result.confidence)
        /\ FLe(Lit_0_0, result.confidence)
        /\ FLe(result.confidence, Lit_1_0)

\* two files that each match three subprocess patterns: six critical
\* findings, and the confidence is clamped to 0.0
C4_Witness ==
    /\ Done /\ expert = "SecurityExpert"
    /\ CountPriority(result.hallucinations, "critical") > 5
    /\ result.confidence = Lit_0_0

\* C6: when the Architecture, Build, CodeQuality, MCP or Model expert finds
\* none of its artifacts under the project root, it returns empty findings,
\* confidence exactly 0.3 and a non-empty recommendation list.
C6_NoArtifactsGiveConfidencePoint3 ==
    (Done /\ expert \in AnalysingExperts /\ FoundData(expert, tree) = <<>>) =>
        /\ result.hallucinations = <<>>
        /\ result.confidence = Lit_0_3
        /\ result.recommendations # <<>>

\* C7: the Security expert on a project root without any *.py file returns
\* findings [], confidence 0.3 and a non-empty recommendation list.
C7_SecurityWithoutSourcesGivesPoint3 ==
    (Done /\ expert = "SecurityExpert" /\ RGlob(tree, "", "*.py") = <<>>) =>
        /\ result.hallucinations = <<>>
        /\ result.confidence = Lit_0_3
        /\ result.recommendations # <<>>

\* C8: for every expert, detect_hallucinations on a project root that does
\* not exist raises nothing and returns empty findings with confidence 0.3.
C8_MissingRootActsAsNoData ==
    ~tree.root =>
        /\ ~raised
        /\ Done => /\ result.hallucinations = <<>>
                   /\ result.confidence = Lit_0_3

\* C9: every invocation of detect_hallucinations, of every expert and on
\* every tree, with files that cannot be read or parsed, ends, returns
\* exactly one Result and lets no exception reach the caller.
C9_EveryInvocationReturnsOneResult ==
    /\ [](~raised /\ pc # "raised")
    /\ [](returned \in {0, 1} /\ (Done <=> returned = 1))
    /\ (pc \notin {"idle", "done"}) ~> Done

\* a report that json.load rejects and a workflow that cannot be read,
\* and the CodeQuality expert has returned
C9_Witness ==
    /\ Done /\ expert = "CodeQualityExpert" /\ returned = 1
    /\ \/ /\ tree.files["flake8_report.json"].kind = "file"
          /\ ReadText(tree, "flake8_report.json").text = <<<<Flake8JsonReports.broken>>>>
       \/ CannotBeRead(tree, ".github/workflows/ci.yml")

\* tree t without the file p
Without(t, p) == [t EXCEPT !.files[p] = Absent]

\* the findings of scanning the files scan_files of tree t
RECURSIVE ScanAll(_, _)
ScanAll(t, files) ==
    IF files = <<>> THEN <<>>
    ELSE Caught(ScanPyFile(t, Head(files))).found \o ScanAll(t, Tail(files))

\* C10: in the Security scan a file that cannot be read adds no finding and
\* does not end the scan: the findings are those of the same tree without
\* that file, wherever the file comes in the traversal.
C10_UnreadableFileIsSkipped ==
    (Done /\ expert = "SecurityExpert") =>
        \A p \in PathNames :
            CannotBeRead(tree, p) =>
                /\ \A i \in DOMAIN result.hallucinations :
                        result.hallucinations[i].file # p
                /\ result.hallucinations
                     = ScanAll(Without(tree, p),
                               RGlob(Without(tree, p), "", "*.py"))

\* the second of three Python files cannot be read, and the findings of
\* the first and of the third are reported
C10_Witness ==
    /\ Done /\ expert = "SecurityExpert"
    /\ CannotBeRead(tree, "tool.py")
    /\ \E i, j \in DOMAIN result.hallucinations :
            /\ i < j
            /\ result.hallucinations[i].file = "main.py"
            /\ result.hallucinations[j].file = "src/app.py"

\* ------------------------------------------- claims about the Security scan
\* the members of a list
Range(list) == {list[i] : i \in DOMAIN list}

\* finding f is a credential finding, or a command-execution finding
IsCredentialFinding(f) ==
    /\ f.type = "security_vulnerability" /\ f.priority = "high"
    /\ f.pattern \in Range(credential_patterns)
IsCommandFinding(f) ==
    /\ f.type = "subprocess_vulnerability" /\ f.priority = "critical"
    /\ f.pattern \in Range(subprocess_patterns)

\* C11: every finding of the Security expert is a credential finding with
\* priority high or a command-execution finding with priority critical,
\* made by a pattern of that family; and every pattern that matches the
\* content of a file that was read has a finding of its family for that file.
C11_SecurityFindingsAreOfTheTwoFamilies ==
    (Done /\ expert = "SecurityExpert") =>
        /\ \A f \in Range(result.hallucinations) :
                IsCredentialFinding(f) \/ IsCommandFinding(f)
        /\ \A p \in Range(scan_files) :
                ~ReadText(tree, p).error =>
                    /\ \A pattern \in Range(credential_patterns) :
                            re_search(pattern, Content(ReadText(tree, p).text))
                            => \E f \in Range(result.hallucinations) :
                                    /\ IsCredentialFinding(f)
                                    /\ f.file = p /\ f.pattern = pattern
                    /\ \A pattern \in Range(subprocess_patterns) :
                            re_search(pattern, Content(ReadText(tree, p).text))
                            => \E f \in Range(result.hallucinations) :
                                    /\ IsCommandFinding(f)
                                    /\ f.file = p /\ f.pattern = pattern

\* a file with a secret key and a file with three process-spawn constructs:
\* one high finding and three critical findings
C11_Witness ==
    /\ Done /\ expert = "SecurityExpert"
    /\ Cardinality({f \in Range(result.hallucinations) :
                        IsCredentialFinding(f)}) = 1
    /\ Cardinality({f \in Range(result.hallucinations) :
                        IsCommandFinding(f)}) = 3

\* ---------------------------------------- claims about the pattern detector
Scanned == "scan" \in called

\* pattern matches line n of the text handed to the detector
LineHolds(pattern, n) == re_search(pattern, Content(<<file_text[n]>>))

\* the first line of the text that pattern matches, 0 when none does
FirstLine(pattern) ==
    IF \E n \in DOMAIN file_text : LineHolds(pattern, n)
    THEN CHOOSE n \in DOMAIN file_text :
            /\ LineHolds(pattern, n)
            /\ \A k \in 1..(n - 1) : ~LineHolds(pattern, k)
    ELSE 0

\* C12: when the content of a file holds a string of the shape of a
\* credential pattern, on one line or on several, the detector emits
\* exactly one finding for that pattern and file; it is a credential finding
\* with priority high and its line is the 1-based number of the first line
\* that holds such a string.
C12_OneCredentialFindingPerPatternAndFile ==
    Scanned =>
        \A pattern \in Range(credential_patterns) :
            re_search(pattern, Content(file_text)) =>
                /\ Cardinality({i \in DOMAIN detected :
                                    detected[i].pattern = pattern}) = 1
                /\ \A f \in Range(detected) :
                        f.pattern = pattern =>
                            /\ IsCredentialFinding(f)
                            /\ f.file = "main.py"
                            /\ f.line >= 1
                            /\ f.line = FirstLine(pattern)

\* the same secret key on lines 3 and 4 of a file of four lines: one
\* finding, with line 3
C12_Witness ==
    /\ Scanned
    /\ Len(file_text) = 4
    /\ file_text[3] = <<"API_KEY =", SecretKey>>
    /\ file_text[4] = <<"API_KEY =", SecretKey>>
    /\ Len(detected) = 1
    /\ IsCredentialFinding(detected[1])
    /\ detected[1].line = 3

\* C13: the line of every finding of the detector is the 1-based number of
\* the first line of the content that matches the pattern of that finding;
\* whenever re.search finds a pattern in the whole content the line number
\* found for it is between 1 and the number of lines, and it is 0 only
\* when no line matches the pattern.
C13_LineIsFirstMatchingLine ==
    Scanned =>
        /\ \A f \in Range(detected) :
                /\ f.line = FirstLine(f.pattern)
                /\ f.line \in 1..Len(file_text)
        /\ \A pattern \in Range(credential_patterns)
                            \cup Range(subprocess_patterns) :
                /\ re_search(pattern, Content(file_text)) =>
                        _find_line_number(Content(file_text), pattern)
                            \in 1..Len(file_text)
                /\ _find_line_number(Content(file_text), pattern) = 0
                    <=> \A n \in DOMAIN file_text : ~LineHolds(pattern, n)

\* os.popen on line 3 and os.system on line 4: each finding carries the
\* line of its own pattern
C13_Witness ==
    /\ Scanned
    /\ \E f, g \in Range(detected) :
            /\ f.pattern = "os\\.popen" /\ f.line = 3
            /\ g.pattern = "os\\.system" /\ g.line = 4

\* C14 as stated: for every line n of the content that holds a
\* process-spawn construct, the detector emits a command-execution finding
\* with priority critical whose line is n.
C14_FindingForEveryLineWithConstruct ==
    Scanned =>
        \A n \in DOMAIN file_text :
            (\E pattern \in Range(subprocess_patterns) : LineHolds(pattern, n))
            => \E f \in Range(detected) : IsCommandFinding(f) /\ f.line = n

\* C14: when line n is the first line of the content that holds the
\* process-spawn construct of a pattern, the detector emits a
\* command-execution finding with priority critical for that pattern whose
\* line is n; a later line with the same construct gets no finding.
C14_FindingAtFirstLineWithConstruct ==
    Scanned =>
        \A pattern \in Range(subprocess_patterns) :
            \A n \in DOMAIN file_text :
                LineHolds(pattern, n) =>
                    \E f \in Range(detected) :
                        /\ IsCommandFinding(f)
                        /\ f.pattern = pattern
                        /\ f.line = FirstLine(pattern)
                        /\ f.line <= n

\* process-spawn constructs on line 10 of a file of ten lines, and the
\* findings carry line 10
C14_Witness ==
    /\ Scanned
    /\ Len(file_text) = 10
    /\ file_text[10] = <<ShellLine>>
    /\ Len(detected) = 3
    /\ \A f \in Range(detected) : IsCommandFinding(f) /\ f.line = 10

\* ------------------------------------------ claims about the scan path
\* the recommendation lists of expert e
Recommendations(e) ==
    CASE e = "SecurityExpert" -> SecurityRecommendations
      [] e = "ArchitectureExpert" -> ArchitectureRecommendations
      [] e = "BuildExpert" -> BuildRecommendations
      [] e = "CodeQualityExpert" -> CodeQualityRecommendations
      [] e = "MCPExpert" -> MCPRecommendations
      [] e = "ModelExpert" -> ModelRecommendations

\* the invocation that has returned did not take the no-data branch
OnScanPath ==
    /\ Done
    /\ expert \in AnalysingExperts => FoundData(expert, tree) # <<>>

\* C15: on the scan path of every expert the recommendations of the Result
\* are the issues-found list of the expert when the findings are not empty
\* and its all-clear list when they are empty; the two lists differ, and
\* nothing else about the findings selects the list.
C15_RecommendationsChosenByEmptiness ==
    OnScanPath =>
        /\ Recommendations(expert).issues_found
                # Recommendations(expert).all_clear
        /\ result.recommendations =
                IF result.hallucinations = <<>>
                THEN Recommendations(expert).all_clear
                ELSE Recommendations(expert).issues_found

\* a Result with one medium finding and nothing more severe carries the
\* issues-found list
C15_Witness ==
    /\ OnScanPath
    /\ Len(result.hallucinations) = 1
    /\ result.hallucinations[1].priority = "medium"
    /\ result.recommendations = Recommendations(expert).issues_found

\* C19: every finding that the Architecture, Build, CodeQuality, MCP and
\* Model experts return has priority medium, so that a Result of these
\* experts with findings has confidence 0.8.
C19_AnalysingExpertsEmitOnlyMedium ==
    (Done /\ expert \in AnalysingExperts) =>
        /\ \A i \in DOMAIN result.hallucinations :
                result.hallucinations[i].priority = "medium"
        /\ result.hallucinations # <<>> => result.confidence = Lit_0_8

\* ------------------------------------------------ claims about suggest_fixes
Suggested == "suggest_fixes" \in called

\* the kinds that suggest_fixes of expert e has a template for
KnownKinds(e) ==
    CASE e = "SecurityExpert" ->
            {"security_vulnerability", "subprocess_vulnerability"}
      [] e = "ArchitectureExpert" ->
            {"documentation_issue", "structure_issue", "dependency_issue"}
      [] e = "BuildExpert" -> {"build_config_issue", "build_failure"}
      [] e = "CodeQualityExpert" ->
            {"code_quality_issue", "formatting_config", "type_checking_config"}
      [] e = "MCPExpert" -> {"mcp_config_issue", "mcp_failure"}
      [] e = "ModelExpert" -> {"model_config_issue", "model_failure"}

\* the finding carries the kind, the priority and the fields that the
\* templates read
Complete(f) ==
    {"type", "file", "pattern", "code", "description", "priority"}
        \subseteq DOMAIN f

\* C16: for every expert and every list of findings that carry the fields
\* of a finding, suggest_fixes returns one suggestion for each finding of a
\* kind the expert recognises, in input order, each carrying its finding;
\* findings of other kinds are dropped, the empty list gives the empty list
\* and the output is never longer than the input.
C16_OneSuggestionPerRecognisedFinding ==
    (Suggested /\ \A i \in DOMAIN fix_issues : Complete(fix_issues[i])) =>
        LET Known(f) == f.type \in KnownKinds(fix_expert)
        IN  /\ ~fixes.error
            /\ [i \in DOMAIN fixes.found |-> fixes.found[i].issue]
                    = SelectSeq(fix_issues, Known)
            /\ Len(fixes.found) <= Len(fix_issues)
            /\ fix_issues = <<>> => fixes.found = <<>>

\* a finding of a kind without a template, then one of a recognised kind:
\* one suggestion, for the second finding
C16_Witness ==
    /\ Suggested
    /\ Len(fix_issues) = 2
    /\ Complete(fix_issues[1]) /\ Complete(fix_issues[2])
    /\ fix_issues[1].type = "ci_quality_integration"
    /\ fix_issues[2].type \in KnownKinds(fix_expert)
    /\ Len(fixes.found) = 1
    /\ fixes.found[1].issue = fix_issues[2]

\* C17: suggest_fixes of every expert raises nothing, whatever the findings
\* are: a finding without a kind, or a finding of a known kind without a
\* field that the template reads, gives a suggestion or is left out.
C17_SuggestFixesNeverRaises ==
    Suggested => ~fixes.error

\* C18: for every expert, suggest_fixes on one finding of a known kind
\* returns one suggestion, and the priority of the suggestion is the
\* priority of the finding, whichever priority the finding has.
C18_SuggestionKeepsPriorityOfFinding ==
    (/\ Suggested
     /\ Len(fix_issues) = 1
     /\ Complete(fix_issues[1])
     /\ fix_issues[1].type \in KnownKinds(fix_expert)) =>
        /\ ~fixes.error
        /\ Len(fixes.found) = 1
        /\ fixes.found[1].priority = fix_issues[1].priority

\* ------------------------------------- claims about interleaved invocations
\* the invocation that runs and those that wait
Invocations ==
    {[expert |-> expert, pc |-> pc, hallucinations |-> hallucinations,
      scan_files |-> scan_files, scan_idx |-> scan_idx, result |-> result,
      returned |-> returned, raised |-> raised]}
    \cup Range(suspended)

\* the findings of the analyses of expert e on tree t, one after the other
Analysed(e, t) ==
    CASE e = "SecurityExpert" -> ScanAll(t, RGlob(t, "", "*.py"))
      [] e = "ArchitectureExpert" ->
            _analyze_architecture_docs(t).found
            \o _analyze_code_structure(t).found
            \o _analyze_dependencies(t).found
      [] e = "BuildExpert" ->
            _analyze_build_config(t).found
            \o _analyze_build_logs(t).found
      [] e = "CodeQualityExpert" ->
            _analyze_existing_flake8_outputs(t).found
            \o _analyze_existing_black_outputs(t).found
            \o _analyze_existing_mypy_outputs(t).found
            \o _analyze_existing_ci_logs(t).found
      [] e = "MCPExpert" ->
            _analyze_mcp_config(t).found \o _analyze_mcp_logs(t).found
      [] e = "ModelExpert" ->
            _analyze_model_config(t).found
            \o _analyze_model_outputs(t).found

\* the Result of detect_hallucinations of expert e on tree t when nothing
\* else runs
Alone(e, t) ==
    LET found == Analysed(e, t)
    IN  IF e \in AnalysingExperts /\ FoundData(e, t) = <<>>
        THEN HallucinationResult(
                <<>>,
                IF e = "CodeQualityExpert" THEN Lit_0_5 ELSE Lit_0_3,
                Recommendations(e).no_data)
        ELSE HallucinationResult(
                found,
                calculate_confidence(found),
                IF found = <<>> THEN Recommendations(e).all_clear
                ELSE Recommendations(e).issues_found)

\* C20: whatever invocations of detect_hallucinations run on a tree, of the
\* same expert or of different ones, one after the other or interleaved at
\* any of their steps, each one that has returned holds the Result that its
\* expert gives on that tree when it runs alone, and no invocation raises.
C20_InterleavedInvocationsReturnResultOfRunningAlone ==
    \A c \in Invocations :
        /\ ~c.raised
        /\ c.pc = "done" => c.result = Alone(c.expert, tree)

\* an invocation has returned findings while one of another expert, which
\* has collected findings too, waits in the middle of its analyses
C20_Witness ==
    /\ Done
    /\ result.hallucinations # <<>>
    /\ \E i \in DOMAIN suspended :
            /\ suspended[i].pc \notin {"idle", "done"}
            /\ suspended[i].expert # expert
            /\ suspended[i].hallucinations # <<>>

\* --------------------------------------- claims about the scanned project
\* C21: no operation of an expert (detect_hallucinations, suggest_fixes,
\* calculate_confidence, calculate_risk_score, validate_findings,
\* execute_recovery) changes the project: the files under project_path and
\* the content of each are after every step what they were before it.
C21_NoOperationChangesTheProject == [][tree' = tree]_vars

\* on a tree in which the expert found something, the findings were handed
\* on and the five other operations have all returned
C21_Witness ==
    /\ pc = "taken"
    /\ tree.root
    /\ result.hallucinations # <<>>
    /\ fix_expert = expert
    /\ called = {"calculate_confidence", "calculate_risk_score",
                 "suggest_fixes", "validate_findings", "execute_recovery"}
    /\ ~fixes.error /\ fixes.found # <<>>
    /\ validation.findings_count = Len(result.hallucinations)
    /\ recovery.issues_processed = Len(result.hallucinations)

\* C22: an invocation whose scan is cancelled or timed out after some files
\* were scanned does not fail: no exception leaves detect_hallucinations,
\* so that the invocation can still end with a Result that holds the
\* findings collected so far.
C22_CancelledScanStillYieldsResult ==
    (expert = "SecurityExpert" /\ scan_idx > 1) => ~raised /\ pc # "raised"

\* ------------------------------------ claims about artifacts that fail
\* the parsing of the flake8 JSON report of tree t ends in an exception:
\* json.load rejects the text, or an item of the list is no JSON object
Flake8ReportFails(t) ==
    /\ Exists(t, "flake8_report.json")
    /\ ~ReadText(t, "flake8_report.json").error
    /\ LET loaded == json_load(ReadText(t, "flake8_report.json").text)
       IN  loaded.error \/ Flake8JsonIssues(loaded.data).error

\* C23: when the parsing of the flake8 report fails, at its start or
\* part-way, the Result of the CodeQuality expert holds no finding derived
\* from that report, and the findings from the other artifacts are there:
\* the findings are those of the same tree without the report.
C23_FailedReportGivesNoFinding ==
    (/\ Done /\ expert = "CodeQualityExpert"
     /\ FoundData(expert, tree) # <<>>
     /\ Flake8ReportFails(tree)) =>
        result.hallucinations
            = Analysed(expert, Without(tree, "flake8_report.json"))

\* ------------------------------------------ claims about the no-data branch
\* the file and directory names that expert e looks for under project_path
WellKnownNames(e) ==
    CASE e = "ArchitectureExpert" ->
            {"README.md", "ARCHITECTURE.md", "DESIGN.md", "docs/", "adr/",
             "decisions/", "architecture/", "design/", "pyproject.toml",
             "setup.py", "requirements.txt", "src/", "lib/", "app/", "core/"}
      [] e = "BuildExpert" ->
            {"pyproject.toml", "setup.py", "setup.cfg", "build.py",
             "Makefile", "dockerfile", "Dockerfile", "build/", "dist/",
             "*.egg-info/", "target/"}
      [] e = "CodeQualityExpert" ->
            {"pyproject.toml", ".ruff.toml", "pytest.ini", "setup.cfg",
             ".flake8", "tox.ini", "coverage.xml", "htmlcov/", "logs/",
             ".github/workflows/", ".gitlab-ci.yml", ".github", ".gitlab-ci",
             ".circleci", "ci", "jenkins"}
      [] e = "MCPExpert" ->
            {"mcp_config.json", "mcp.yaml", "mcp.toml", ".mcp",
             "mcp_server.json", "mcp_client.json", "logs/", "mcp_logs/",
             ".mcp_logs/"}
      [] e = "ModelExpert" ->
            {"model_config.json", "model.yaml", "config.yaml",
             "hyperparameters.json", "model_params.json", "models/",
             "checkpoints/", "outputs/", "results/"}

\* the Result is the one of the no-data branch of its expert
IsNoDataResult ==
    /\ result.hallucinations = <<>>
    /\ result.recommendations = Recommendations(expert).no_data

\* C24: the Architecture, Build, CodeQuality, MCP and Model experts return
\* the no-data Result exactly when none of the well-known names of the
\* expert exists under the project root; when one of them exists, be it a
\* directory that holds no matching file, the Result is the one of the scan
\* path, with the confidence that calculate_confidence gives its findings.
C24_NoDataIffNoWellKnownName ==
    (Done /\ expert \in AnalysingExperts) =>
        /\ IsNoDataResult
            <=> \A name \in WellKnownNames(expert) : ~Exists(tree, name)
        /\ ~IsNoDataResult =>
                result.confidence = calculate_confidence(result.hallucinations)

\* ---------------------------------- claims about the order of the findings
\* the place of a finding in the scan of its file: the credential patterns
\* in their order, then the subprocess patterns in theirs
Place(f) ==
    IF IsCredentialFinding(f)
    THEN CHOOSE k \in DOMAIN credential_patterns :
            credential_patterns[k] = f.pattern
    ELSE Len(credential_patterns)
         + (CHOOSE k \in DOMAIN subprocess_patterns :
                subprocess_patterns[k] = f.pattern)

\* C25: the findings of the Result of the Security expert are in discovery
\* order: the findings of one file are next to each other, and within a
\* file the credential findings come before the command-execution
\* findings, each family in the order of its pattern list.
C25_SecurityFindingsInDiscoveryOrder ==
    (Done /\ expert = "SecurityExpert") =>
        LET h == result.hallucinations
        IN  \A i, j \in DOMAIN h :
                (i < j /\ h[i].file = h[j].file) =>
                    /\ \A k \in i..j : h[k].file = h[i].file
                    /\ Place(h[i]) < Place(h[j])

\* a file with a credential finding and, after it, command-execution
\* findings for two patterns
C25_Witness ==
    /\ Done /\ expert = "SecurityExpert"
    /\ LET h == result.hallucinations
       IN  \E i, j, k \in DOMAIN h :
            /\ i < j /\ j < k
            /\ h[i].file = h[k].file
            /\ IsCredentialFinding(h[i])
            /\ IsCommandFinding(h[j]) /\ IsCommandFinding(h[k])

\* ------------------------------- claims about the confidence of the Result
\* C26: on the scan path of every expert the confidence of the Result is
\* calculate_confidence of the findings of that Result; a Result without
\* findings has confidence 0.9 on the scan path, and has confidence 0.3
\* only on the no-data path; a Result with findings is never one of the
\* no-data branch.
C26_ConfidenceIsThatOfTheFindingsReturned ==
    Done =>
        /\ OnScanPath =>
                result.confidence = calculate_confidence(result.hallucinations)
        /\ (OnScanPath /\ result.hallucinations = <<>>) =>
                result.confidence = Lit_0_9
        /\ (result.hallucinations = <<>> /\ result.confidence = Lit_0_3) =>
                ~OnScanPath
        /\ result.hallucinations # <<>> => OnScanPath

\* the Model expert found its artifacts and nothing wrong in them: no
\* findings, confidence 0.9
C26_Witness ==
    /\ OnScanPath
    /\ expert = "ModelExpert"
    /\ result.hallucinations = <<>>
    /\ result.confidence = Lit_0_9

\* ------------------------------------------- claims about the log files
\* the log files that expert e reads
LogFiles(e) ==
    CASE e = "BuildExpert" -> {"build.log", "make.log", "docker.log"}
      [] e = "MCPExpert" -> {"mcp.log", "mcp_server.log", "mcp_client.log"}
      [] e = "ModelExpert" -> {"model.log", "training.log", "evaluation.log"}

\* the log file is there, can be read and holds 'error' or 'failed'
ReportsFailure(t, log) ==
    /\ Exists(t, log)
    /\ ~ReadText(t, log).error
    /\ \/ in_("error", lower(ReadText(t, log).text))
       \/ in_("failed", lower(ReadText(t, log).text))

\* C27: whenever a log file of the Build, MCP or Model expert exists and
\* readably holds 'error' or 'failed', the Result of the expert holds a
\* failure finding of priority high for that file, whatever else exists
\* under the project root, and it is not the Result of the no-data branch.
C27_FailingLogGivesHighFinding ==
    (Done /\ expert \in {"BuildExpert", "MCPExpert", "ModelExpert"}) =>
        \A log \in LogFiles(expert) :
            ReportsFailure(tree, log) =>
                /\ ~IsNoDataResult
                /\ \E f \in Range(result.hallucinations) :
                        /\ f.type \in {"build_failure", "mcp_failure",
                                        "model_failure"}
                        /\ f.priority = "high"
                        /\ f.file = log

====
